---- MODULE Spec2Model ----
(***************************************************************************)
(* RoutingBrain: the routing pipeline of the chat-completions gateway.     *)
(*                                                                         *)
(*   PolicyEngine.match   (routing/policy.py)   rule scan, virtual-model   *)
(*                        resolution, risk gate, static cap, budget guard  *)
(*   RoutingEngine.route  (routing/engine.py)   candidate list, provider   *)
(*                        dispatch with fallback, RoutingError             *)
(*   chat_completions     (api/v1/chat.py)      audit scheduling, response *)
(*   exception handler    (core/exceptions.py)  HTTP status of an error    *)
(*                                                                         *)
(* Model names are sequences of one-character strings, so that the prefix  *)
(* and substring tests of the provider inference are computed, not looked  *)
(* up.  An Optional[str] that the code only tests for truthiness is the    *)
(* string "" when absent; an Optional object is a sequence of length <= 1. *)
(***************************************************************************)
EXTENDS Integers, Sequences, FiniteSets, TLC

VARIABLES
    _policies,           \* PolicyEngine._policies: department -> Optional policy
    _tenant_policies,    \* PolicyEngine._tenant_policies: (tenant, department) -> Optional policy
    _base_policy,        \* PolicyEngine._base_policy: Optional policy
    _virtual,            \* PolicyEngine._virtual: Optional VirtualModelRegistry._registry
    _prices,             \* BudgetTracker._prices: model id -> ModelPrice
    _providers,          \* ProviderRegistry._providers: the initialized adapters
    request,             \* the ChatCompletionRequest with its ambient context
    risk,                \* RiskAssessment of the request
    classification,      \* ClassificationResult of the request
    budget_pct,          \* result of BudgetTracker.get_budget_pct for the request
    pc,                  \* position of the request in chat_completions / route
    matched,             \* (rule, policy_trace, constraints_applied) returned by match
    models_to_try,       \* route: the candidate list
    idx,                 \* route: index of the candidate under attempt (1-based)
    fallback_used,       \* route local
    actual_model,        \* route local
    actual_provider_name,\* route local
    served_idx,          \* index of the candidate whose call produced the body (0: none)
    calls,               \* the provider calls made, in order
    outcome,             \* Optional RoutingOutcome returned by route
    error,               \* Optional RoutingError raised by route
    audit_tasks,         \* background tasks holding an audit record, not yet run
    audit_log,           \* records handed to AuditLogger.log, in order
    http_status,         \* status of the HTTP response (0: none yet)
    policies_dir,        \* the *.yaml files of PolicyEngine.policies_dir, in glob order
    loaded_dir,          \* the directory contents read by the last load_all
    selected_policy,     \* route local: the policy whose budget_controls are read
    match_policy,        \* the policy that match selected for the request
    policy_version,      \* route local: the result of get_policy_version
    kv_store,            \* the key-value store of BudgetTracker: key -> [value, expire_at]
    now,                 \* the clock, in seconds since the start of UTC day 0
    bt_call,             \* the last BudgetTracker call with its result
    bt_pending,          \* the record_spend calls awaiting their pipeline
    classify_call,       \* the last RoutingBrain.classify call with its result
    upstream,            \* the chunks the provider's stream has yielded so far
    body,                \* the elements of the streaming response body, in order
    stream_phase,        \* "unopened", "open", "closed" or "failed"
    match_calls,         \* the PolicyEngine.match calls made, each with its result
    assess_call,         \* the last risk_analyzer.assess call with its result
    log_tasks,           \* the calls of AuditLogger.log, each with its position in the code
    _lock,               \* AuditLogger._lock: the call that holds it, if any
    audit_file,          \* the text of the audit file, in the pieces that json_dumps gives
    spend_calls          \* the record_spend calls that route has made, in order

vars == <<_policies, _tenant_policies, _base_policy, _virtual, _prices, _providers,
          request, risk, classification, budget_pct, pc, matched,
          models_to_try, idx, fallback_used, actual_model,
          actual_provider_name, served_idx, calls, outcome, error,
          audit_tasks, audit_log, http_status, policies_dir, loaded_dir,
          selected_policy, match_policy, policy_version, kv_store, now,
          bt_call, bt_pending, classify_call, upstream, body, stream_phase,
          match_calls,
          assess_call,
          log_tasks,
          _lock,
          audit_file,
          spend_calls>>

\* the audit file and its lock
audit_logger_vars == <<log_tasks, _lock, audit_file>>

\* the variables that only the specifications about them change
call_logs == <<match_calls, assess_call, log_tasks, _lock, audit_file>>

log_vars == <<call_logs, spend_calls>>

NoLogs ==
    /\ match_calls = <<>>
    /\ assess_call = <<>>
    /\ log_tasks = <<>>
    /\ _lock = <<>>
    /\ audit_file = <<>>
    /\ spend_calls = <<>>

(***************************************************************************)
(* Bounds of the model.                                                    *)
(***************************************************************************)
MaxRules == 2

(***************************************************************************)
(* Strings.                                                                *)
(***************************************************************************)
startswith(s, p) == Len(s) >= Len(p) /\ SubSeq(s, 1, Len(p)) = p

contains(s, p) ==
    \E i \in 1..(Len(s) - Len(p) + 1) : SubSeq(s, i, i + Len(p) - 1) = p

UpperToLower ==
    [c \in {"A","B","C","D","E","F","G","H","I","J","K","L","M","N","O","P",
            "Q","R","S","T","U","V","W","X","Y","Z"} |->
        CASE c = "A" -> "a" [] c = "B" -> "b" [] c = "C" -> "c" [] c = "D" -> "d"
          [] c = "E" -> "e" [] c = "F" -> "f" [] c = "G" -> "g" [] c = "H" -> "h"
          [] c = "I" -> "i" [] c = "J" -> "j" [] c = "K" -> "k" [] c = "L" -> "l"
          [] c = "M" -> "m" [] c = "N" -> "n" [] c = "O" -> "o" [] c = "P" -> "p"
          [] c = "Q" -> "q" [] c = "R" -> "r" [] c = "S" -> "s" [] c = "T" -> "t"
          [] c = "U" -> "u" [] c = "V" -> "v" [] c = "W" -> "w" [] c = "X" -> "x"
          [] c = "Y" -> "y" [] c = "Z" -> "z"]

lower(s) ==
    [i \in 1..Len(s) |-> IF s[i] \in DOMAIN UpperToLower THEN UpperToLower[s[i]] ELSE s[i]]

VIRTUAL_PREFIX == <<"r","b",":","/","/">>

(***************************************************************************)
(* Model names that occur in the policies, the registry and the code.      *)
(***************************************************************************)
M_claude   == <<"c","l","a","u","d","e","-","3">>
M_gpt      == <<"g","p","t","-","4","o">>
M_llama    == <<"l","l","a","m","a","3">>
M_mistral  == <<"m","i","s","t","r","a","l">>
M_rb_oss   == <<"r","b",":","/","/","o","s","s">>
M_rb_none  == <<"r","b",":","/","/","x">>
M_haiku    == <<"c","l","a","u","d","e","-","h","a","i","k","u","-","4","-","5",
                "-","2","0","2","5","1","0","0","1">>
M_llama70b == <<"l","l","a","m","a","3",".","1",":","7","0","b">>

(***************************************************************************)
(* routing/risk_analyzer.py                                                *)
(***************************************************************************)
OSS_PROVIDERS == {"ollama", "vllm"}
DIRECT_COMMERCIAL_PROVIDERS == {"anthropic", "openai", "gemini"}
COMPLIANT_CLOUD_PROVIDERS == {"bedrock", "azure"}

RiskLevels == {"low", "medium", "high", "regulated"}

\* The RiskAssessment that assess() builds for each level.
RiskAssessment(level) ==
    [risk_level |-> level,
     direct_commercial_forbidden |-> level \in {"regulated", "high"},
     oss_forbidden |-> FALSE,
     required_min_tier |-> IF level \in {"regulated", "high"} THEN "balanced" ELSE "fast_cheap",
     audit_required |-> level \in {"regulated", "high"}]

\* The text of a request is a sequence of words; the words that occur in the texts
\* explored and in the patterns kept below.
W_ssn       == <<"s","s","n">>
W_patient   == <<"p","a","t","i","e","n","t">>
W_patients  == <<"p","a","t","i","e","n","t","s">>
W_SOX       == <<"S","O","X">>
W_sox       == <<"s","o","x">>
W_gdpr      == <<"g","d","p","r">>
W_contract  == <<"c","o","n","t","r","a","c","t">>
W_salary    == <<"s","a","l","a","r","y">>
W_ceo       == <<"c","e","o">>
W_password  == <<"p","a","s","s","w","o","r","d">>
W_customer  == <<"c","u","s","t","o","m","e","r">>
W_revenue   == <<"r","e","v","e","n","u","e">>
W_client    == <<"c","l","i","e","n","t">>
W_hello     == <<"h","e","l","l","o">>

\* REGULATED_PATTERNS, HIGH_RISK_PATTERNS, MEDIUM_RISK_PATTERNS: every category, in
\* the order of the dictionaries, each with some of its single-word patterns
\* (\bword\b, compiled with re.IGNORECASE)
REGULATED_PATTERNS ==
    <<[category |-> "pii_phi", terms |-> <<W_ssn, W_patient>>],
      [category |-> "financial_regulated", terms |-> <<W_sox>>],
      [category |-> "legal_regulated", terms |-> <<W_gdpr>>]>>

HIGH_RISK_PATTERNS ==
    <<[category |-> "legal_contract", terms |-> <<W_contract>>],
      [category |-> "financial_sensitive", terms |-> <<W_salary>>],
      [category |-> "executive_comms", terms |-> <<W_ceo>>],
      [category |-> "security_sensitive", terms |-> <<W_password>>]>>

MEDIUM_RISK_PATTERNS ==
    <<[category |-> "customer_data", terms |-> <<W_customer>>],
      [category |-> "business_sensitive", terms |-> <<W_revenue>>],
      [category |-> "external_comms", terms |-> <<W_client>>]>>

\* p.search(text) for the pattern \bterm\b with IGNORECASE
pattern_search(term, text) == \E i \in 1..Len(text) : lower(text[i]) = term

\* p.pattern: the source of the pattern of a word
pattern_of(term) == <<"\\", "b">> \o term \o <<"\\", "b">>

first5(seq) == SubSeq(seq, 1, IF Len(seq) < 5 THEN Len(seq) ELSE 5)

\* _scan: one signal for each category with a matching pattern, in category order
_scan(text, compiled, category_prefix, weight) ==
    LET hit == SelectSeq(compiled,
                   LAMBDA cat : \E k \in 1..Len(cat.terms) : pattern_search(cat.terms[k], text))
    IN  [i \in 1..Len(hit) |->
            [category |-> category_prefix \o "." \o hit[i].category,
             matched_terms |->
                 LET matched_terms_all == SelectSeq(hit[i].terms,
                                    LAMBDA term : pattern_search(term, text))
                 IN  first5([k \in 1..Len(matched_terms_all) |-> pattern_of(matched_terms_all[k])]),
             weight |-> weight]]

\* The assessment that looks at the medium patterns first.
assess_medium_first(text) ==
    LET regulated_signals == _scan(text, REGULATED_PATTERNS, "regulated", 4)
        high_signals == _scan(text, HIGH_RISK_PATTERNS, "high", 3)
        medium_signals == _scan(text, MEDIUM_RISK_PATTERNS, "medium", 2)
        all_signals == regulated_signals \o high_signals \o medium_signals
    IN  IF medium_signals # <<>>
        THEN [risk_level |-> "medium", signals |-> all_signals,
              direct_commercial_forbidden |-> FALSE, oss_forbidden |-> FALSE,
              required_min_tier |-> "fast_cheap", audit_required |-> FALSE]
        ELSE IF regulated_signals # <<>>
        THEN [risk_level |-> "regulated", signals |-> all_signals,
              direct_commercial_forbidden |-> TRUE, oss_forbidden |-> FALSE,
              required_min_tier |-> "balanced", audit_required |-> TRUE]
        ELSE IF high_signals # <<>>
        THEN [risk_level |-> "high", signals |-> all_signals,
              direct_commercial_forbidden |-> TRUE, oss_forbidden |-> FALSE,
              required_min_tier |-> "balanced", audit_required |-> TRUE]
        ELSE [risk_level |-> "low", signals |-> <<>>,
              direct_commercial_forbidden |-> FALSE, oss_forbidden |-> FALSE,
              required_min_tier |-> "fast_cheap", audit_required |-> FALSE]

\* assess, on the words of the joined message texts
assess(text) ==
    LET regulated_signals == _scan(text, REGULATED_PATTERNS, "regulated", 4)
        high_signals == _scan(text, HIGH_RISK_PATTERNS, "high", 3)
        medium_signals == _scan(text, MEDIUM_RISK_PATTERNS, "medium", 2)
        all_signals == regulated_signals \o high_signals \o medium_signals
    IN  IF regulated_signals # <<>>
        THEN [risk_level |-> "regulated", signals |-> all_signals,
              direct_commercial_forbidden |-> TRUE, oss_forbidden |-> FALSE,
              required_min_tier |-> "balanced", audit_required |-> TRUE]
        ELSE IF high_signals # <<>>
        THEN [risk_level |-> "high", signals |-> all_signals,
              direct_commercial_forbidden |-> TRUE, oss_forbidden |-> FALSE,
              required_min_tier |-> "balanced", audit_required |-> TRUE]
        ELSE IF medium_signals # <<>>
        THEN [risk_level |-> "medium", signals |-> all_signals,
              direct_commercial_forbidden |-> FALSE, oss_forbidden |-> FALSE,
              required_min_tier |-> "fast_cheap", audit_required |-> FALSE]
        ELSE [risk_level |-> "low", signals |-> <<>>,
              direct_commercial_forbidden |-> FALSE, oss_forbidden |-> FALSE,
              required_min_tier |-> "fast_cheap", audit_required |-> FALSE]

is_provider_allowed(provider, assessment) ==
    IF provider \in OSS_PROVIDERS THEN TRUE
    ELSE IF provider \in COMPLIANT_CLOUD_PROVIDERS THEN TRUE
    ELSE IF provider \in DIRECT_COMMERCIAL_PROVIDERS
         THEN ~assessment.direct_commercial_forbidden
    ELSE TRUE

(***************************************************************************)
(* The float arithmetic of the program (IEEE 754 binary64, round to        *)
(* nearest, ties to even).  A natural number of any size is the sequence   *)
(* of its digits in base 16384 (2^14), the least significant first and the *)
(* most significant not 0; a float x >= 0 is [man, exp] with the value     *)
(* man / 2^exp, man of at most 53 bits (or 2^53).  The operations are      *)
(* functions, so that an operand is computed once where it is used often.  *)
(***************************************************************************)
BigNat == Seq(Nat)

Float == [man : BigNat, exp : Int]

pow2_table == <<1, 2, 4, 8, 16, 32, 64, 128, 256, 512, 1024, 2048, 4096, 8192, 16384>>

\* 2^n for 0 <= n <= 14
pow2(n) == pow2_table[n + 1]

bit_length[n \in Nat] == IF n = 0 THEN 0 ELSE 1 + bit_length[n \div 2]

big_of[n \in Nat] == IF n = 0 THEN <<>> ELSE <<n % 16384>> \o big_of[n \div 16384]

big_to_int[a \in BigNat] == IF a = <<>> THEN 0 ELSE Head(a) + 16384 * big_to_int[Tail(a)]

big_trim[a \in BigNat] ==
    IF a = <<>> \/ a[Len(a)] # 0 THEN a ELSE big_trim[SubSeq(a, 1, Len(a) - 1)]

big_bit_length[a \in BigNat] ==
    IF a = <<>> THEN 0 ELSE 14 * (Len(a) - 1) + bit_length[a[Len(a)]]

\* the digit of a at place i, 0 where a has none
big_digit(a, i) == IF i >= 1 /\ i <= Len(a) THEN a[i] ELSE 0

\* bit k of a, the least significant being bit 0
big_bit(a, k) == (big_digit(a, (k \div 14) + 1) \div pow2(k % 14)) % 2 = 1

\* the digits of a sum of columns: a column and the carry into it stay below 2^31
big_carry[columns \in BigNat, carry \in Nat] ==
    IF columns = <<>> THEN big_of[carry]
    ELSE <<(Head(columns) + carry) % 16384>>
             \o big_carry[Tail(columns), (Head(columns) + carry) \div 16384]

big_add[a \in BigNat, b \in BigNat] ==
    big_carry[[i \in 1..(IF Len(a) >= Len(b) THEN Len(a) ELSE Len(b)) |->
                  big_digit(a, i) + big_digit(b, i)], 0]

\* a + 1
big_inc[a \in BigNat] ==
    IF a = <<>> THEN <<1>>
    ELSE IF a[1] < 16383 THEN [a EXCEPT ![1] = a[1] + 1]
    ELSE <<0>> \o big_inc[Tail(a)]

\* a * k for 0 < k < 2^16
big_mul_small[a \in BigNat, k \in Nat] == big_carry[[i \in 1..Len(a) |-> a[i] * k], 0]

\* a * b for a, b < 2^56 (four digits each)
big_mul[a \in BigNat, b \in BigNat] ==
    big_trim[big_carry[[k \in 1..7 |->
                           big_digit(a, 1) * big_digit(b, k)
                           + big_digit(a, 2) * big_digit(b, k - 1)
                           + big_digit(a, 3) * big_digit(b, k - 2)
                           + big_digit(a, 4) * big_digit(b, k - 3)], 0]]

\* a * 2^t
big_shl[a \in BigNat, t \in Nat] ==
    big_trim[[i \in 1..(Len(a) + (t \div 14) + 1) |->
                 (big_digit(a, i - (t \div 14)) % pow2(14 - (t % 14))) * pow2(t % 14)
                 + (big_digit(a, i - (t \div 14) - 1) \div pow2(14 - (t % 14)))]]

\* a \div 2^t
big_shr[a \in BigNat, t \in Nat] ==
    big_trim[[i \in 1..(Len(a) - (t \div 14)) |->
                 (a[i + (t \div 14)] \div pow2(t % 14))
                 + (big_digit(a, i + (t \div 14) + 1) % pow2(t % 14)) * pow2(14 - (t % 14))]]

\* a % 2^t
big_low[a \in BigNat, t \in Nat] ==
    big_trim[[i \in 1..(IF Len(a) <= t \div 14 THEN Len(a) ELSE (t \div 14) + 1) |->
                 IF i <= t \div 14 THEN a[i] ELSE a[i] % pow2(t % 14)]]

\* one digit of a long division by d, 0 < d < 2^24, in two halves of 7 bits: x
\* is the remainder so far with the high half of the digit, low its low half
big_div_digit[x \in Nat, low \in Nat, d \in Nat] ==
    [digit |-> (x \div d) * 128 + (((x % d) * 128 + low) \div d),
     rem |-> ((x % d) * 128 + low) % d]

big_div_cons[quot \in BigNat, r \in [digit : Nat, rem : Nat]] ==
    [quot |-> <<r.digit>> \o quot, rem |-> r.rem]

big_div_step[high \in [quot : BigNat, rem : Nat], digit \in Nat, d \in Nat] ==
    big_div_cons[high.quot, big_div_digit[high.rem * 128 + (digit \div 128), digit % 128, d]]

\* quotient and remainder of a by d, 0 < d < 2^24; the quotient may keep
\* leading zero digits
big_divmod_small[a \in BigNat, d \in Nat] ==
    IF a = <<>> THEN [quot |-> <<>>, rem |-> 0]
    ELSE big_div_step[big_divmod_small[Tail(a), d], Head(a), d]

\* q, or q + 1 when the part cut off is above a half, or is a half and q is odd
big_round_up[q \in BigNat, half \in BOOLEAN, above \in BOOLEAN] ==
    IF half /\ (above \/ big_digit(q, 1) % 2 = 1) THEN big_inc[q] ELSE q

\* (a + f) / 2^t rounded to the nearest integer, a tie to the even one; f is a
\* fraction in [0, 1), sticky says that it is not 0, and t > 0 then
big_round_shr[a \in BigNat, t \in Nat, sticky \in BOOLEAN] ==
    IF t = 0 THEN a
    ELSE big_round_up[big_shr[a, t], big_bit(a, t - 1), sticky \/ big_low[a, t - 1] # <<>>]

\* man / 2^exp with the t lowest bits of man rounded away, if t > 0
float_round[man \in BigNat, exp \in Int, t \in Int, sticky \in BOOLEAN] ==
    IF t <= 0 THEN [man |-> man, exp |-> exp]
    ELSE [man |-> big_round_shr[man, t, sticky], exp |-> exp - t]

\* the float nearest to (man + f) / 2^exp, f as above
float_nearest[man \in BigNat, exp \in Int, sticky \in BOOLEAN] ==
    float_round[man, exp, big_bit_length[man] - 53, sticky]

float_quot[qr \in [quot : BigNat, rem : Nat], s \in Nat] ==
    float_nearest[big_trim[qr.quot], s, qr.rem # 0]

\* n / d in float arithmetic, for integers n >= 0 and 0 < d <= 2^20; also the
\* float that the decimal text of n / d denotes (float("0.8") is 80 / 100)
float_div[n \in Nat, d \in Nat] ==
    IF n = 0 THEN [man |-> <<>>, exp |-> 0]
    ELSE float_quot[big_divmod_small[big_shl[big_of[n], 53 + bit_length[d]], d],
                    53 + bit_length[d]]

\* x * y; the product with 0.0 is 0.0
float_mul[x \in Float, y \in Float] ==
    IF x.man = <<>> \/ y.man = <<>> THEN [man |-> <<>>, exp |-> 0]
    ELSE float_nearest[big_mul[x.man, y.man], x.exp + y.exp, FALSE]

\* x + y for x.exp >= y.exp
float_add_aligned[x \in Float, y \in Float] ==
    float_nearest[big_add[x.man, big_shl[y.man, x.exp - y.exp]], x.exp, FALSE]

\* x + y; the sum with 0.0 is the other term
float_add[x \in Float, y \in Float] ==
    IF y.man = <<>> THEN x
    ELSE IF x.man = <<>> THEN y
    ELSE IF x.exp >= y.exp THEN float_add_aligned[x, y]
    ELSE float_add_aligned[y, x]

\* a < b
big_less[a \in BigNat, b \in BigNat] ==
    IF Len(a) # Len(b) THEN Len(a) < Len(b)
    ELSE IF a = <<>> THEN FALSE
    ELSE IF a[Len(a)] # b[Len(b)] THEN a[Len(a)] < b[Len(b)]
    ELSE big_less[big_trim[SubSeq(a, 1, Len(a) - 1)], big_trim[SubSeq(b, 1, Len(b) - 1)]]

\* the digits of a - b - borrow for a >= b + borrow, leading zero digits kept
big_sub_digits[a \in BigNat, b \in BigNat, borrow \in Nat] ==
    IF a = <<>> THEN <<>>
    ELSE <<(a[1] + 16384 - big_digit(b, 1) - borrow) % 16384>>
             \o big_sub_digits[Tail(a), IF b = <<>> THEN b ELSE Tail(b),
                               IF a[1] < big_digit(b, 1) + borrow THEN 1 ELSE 0]

\* a - b for a >= b
big_sub[a \in BigNat, b \in BigNat] == big_trim[big_sub_digits[a, b, 0]]

\* 2 * a + bit
big_double[a \in BigNat, bit \in Nat] == big_carry[[i \in 1..Len(a) |-> 2 * a[i]], bit]

\* one bit of a long division by d: r2 is twice the remainder so far, r2 < 2 * d
big_div_bit[q \in BigNat, r2 \in BigNat, d \in BigNat] ==
    IF big_less[r2, d] THEN [quot |-> big_double[q, 0], rem |-> r2]
    ELSE [quot |-> big_double[q, 1], rem |-> big_sub[r2, d]]

\* n more bits of the long division by d, from the quotient and remainder s
big_div_bits[s \in [quot : BigNat, rem : BigNat], d \in BigNat, n \in Nat] ==
    IF n = 0 THEN s
    ELSE big_div_bits[big_div_bit[s.quot, big_double[s.rem, 0], d], d, n - 1]

\* quotient and remainder of a * 2^55 by d, for a and d of 53 bits each
big_div_aligned[a \in BigNat, d \in BigNat] ==
    big_div_bits[IF big_less[a, d] THEN [quot |-> <<>>, rem |-> a]
                 ELSE [quot |-> <<1>>, rem |-> big_sub[a, d]], d, 55]

\* x with its mantissa shifted to 53 bits, x # 0.0
float_aligned[x \in Float] ==
    [man |-> big_shl[x.man, 53 - big_bit_length[x.man]],
     exp |-> x.exp + 53 - big_bit_length[x.man]]

float_quot_big[qr \in [quot : BigNat, rem : BigNat], exp \in Int] ==
    float_nearest[qr.quot, exp, qr.rem # <<>>]

\* x / y for the aligned x and y
float_div_aligned[x \in Float, y \in Float] ==
    float_quot_big[big_div_aligned[x.man, y.man], 55 + x.exp - y.exp]

\* x / y for y # 0.0
float_truediv[x \in Float, y \in Float] ==
    IF x.man = <<>> THEN [man |-> <<>>, exp |-> 0]
    ELSE float_div_aligned[float_aligned[x], float_aligned[y]]

\* x < y
float_less[x \in Float, y \in Float] ==
    IF x.exp >= y.exp THEN big_less[x.man, big_shl[y.man, x.exp - y.exp]]
    ELSE big_less[big_shl[x.man, y.exp - x.exp], y.man]

\* the one record that stands for the value of x: the mantissa odd, or the
\* exponent 0, and 0.0 with the exponent 0
float_norm[x \in Float] ==
    IF x.man = <<>> THEN [man |-> <<>>, exp |-> 0]
    ELSE IF x.exp > 0 /\ x.man[1] % 2 = 0
    THEN float_norm[[man |-> big_shr[x.man, 1], exp |-> x.exp - 1]]
    ELSE x

\* float(n) for an integer 0 <= n < 2^31
float_of_int(n) == float_norm[float_div[n, 1]]

\* max(x, y) of Python: y where x < y, else x
float_max(x, y) == IF float_less[x, y] THEN y ELSE x

float_round6[x \in Float] ==
    big_to_int[big_round_shr[big_mul_small[big_mul_small[x.man, 1000], 1000], x.exp, FALSE]]

\* round(x, 6), in micro-USD: the multiple of 1e-06 nearest to the exact value of
\* the float x, a tie to the even one
round6(x) == float_round6[x]

\* 0.0
float_zero == [man |-> <<>>, exp |-> 0]

\* x >= n for a float x and an integer n >= 0
float_ge_int(x, n) == ~big_less[x.man, big_shl[big_of[n], x.exp]]

(***************************************************************************)
(* models/routing.py, models/policy.py                                     *)
(***************************************************************************)
ModelTier == {"fast_cheap", "balanced", "powerful", "local"}

downgrade_at_percent_default == 80
force_cheap_at_percent_default == 100

RoutingRule(name, task_type, complexity, primary_model, provider, fallback_models, model_tier) ==
    [name |-> name, task_type |-> task_type, complexity |-> complexity,
     primary_model |-> primary_model, provider |-> provider,
     fallback_models |-> fallback_models, model_tier |-> model_tier]

PolicyTraceEntry(rule, result) == [rule |-> rule, result |-> result]

(***************************************************************************)
(* routing/virtual_models.py                                               *)
(***************************************************************************)
VirtualModelRegistry__infer_provider(model) ==
    IF startswith(model, <<"c","l","a","u","d","e">>) THEN "anthropic"
    ELSE IF \/ startswith(model, <<"g","p","t">>)
            \/ startswith(model, <<"o","1">>)
            \/ startswith(model, <<"o","3">>) THEN "openai"
    ELSE IF startswith(model, <<"g","e","m","i","n","i">>) THEN "gemini"
    ELSE IF \E x \in {<<"l","l","a","m","a">>, <<"c","o","d","e","l","l","a","m","a">>,
                      <<"d","e","e","p","s","e","e","k">>, <<"m","i","s","t","r","a","l">>,
                      <<"p","h","i">>} : contains(lower(model), x) THEN "ollama"
    ELSE "openai"

is_virtual(model_id) == startswith(model_id, VIRTUAL_PREFIX)

\* VirtualModelRegistry.__init__ and _load, lines 31-53: the registry read from
\* models.yaml (file: the parsed file, <<>> when there is none).  Without the
\* file _load returns at line 39 and the registry has no entry
VirtualModelRegistry(file) ==
    IF file = <<>> THEN [id \in {} |-> [model |-> <<>>, provider |-> ""]]
    ELSE file[1].virtual_models

\* resolve(model_id) -> (model, provider), on the registry content reg
resolve(reg, model_id) ==
    IF startswith(model_id, VIRTUAL_PREFIX)
    THEN IF model_id \in DOMAIN reg
         THEN <<reg[model_id].model, reg[model_id].provider>>
         ELSE <<M_haiku, "anthropic">>
    ELSE <<model_id, VirtualModelRegistry__infer_provider(model_id)>>

(***************************************************************************)
(* routing/policy.py: PolicyEngine                                         *)
(***************************************************************************)
_tier_rank(tier) ==
    CASE tier = "local" -> 0
      [] tier = "fast_cheap" -> 1
      [] tier = "balanced" -> 2
      [] tier = "powerful" -> 3
      [] OTHER -> 1

PolicyEngine__infer_provider(model) ==
    IF startswith(model, <<"c","l","a","u","d","e">>) THEN "anthropic"
    ELSE IF \/ startswith(model, <<"g","p","t">>)
            \/ startswith(model, <<"o","1">>)
            \/ startswith(model, <<"o","3">>) THEN "openai"
    ELSE IF startswith(model, <<"g","e","m","i","n","i">>) THEN "gemini"
    ELSE IF \E oss \in {<<"l","l","a","m","a">>, <<"c","o","d","e","l","l","a","m","a">>,
                        <<"d","e","e","p","s","e","e","k">>, <<"m","i","s","t","r","a","l">>,
                        <<"p","h","i">>} : contains(lower(model), oss) THEN "ollama"
    ELSE "openai"

\* The fallback of last resort that ignores the risk assessment.
_emergency_fallback_commercial(r) ==
    RoutingRule("emergency_fallback", "", "", M_haiku, "anthropic", <<>>, "fast_cheap")

_emergency_fallback(r) ==
    IF r.direct_commercial_forbidden
    THEN RoutingRule("emergency_fallback_oss", "", "", M_llama70b, "ollama", <<>>, "local")
    ELSE RoutingRule("emergency_fallback", "", "", M_haiku, "anthropic", <<>>, "fast_cheap")

_resolve_rule(rule) ==
    IF _virtual = <<>> THEN rule
    ELSE [rule EXCEPT
            !.primary_model = resolve(_virtual[1], rule.primary_model)[1],
            !.provider = resolve(_virtual[1], rule.primary_model)[2],
            !.fallback_models =
                [i \in 1..Len(rule.fallback_models) |->
                    resolve(_virtual[1], rule.fallback_models[i])[1]]]

\* The lookup that prefers the global policy of the department to the tenant's.
get_policy_global_first(department, tenant_id) ==
    IF _policies[department] # <<>>
    THEN _policies[department]
    ELSE IF tenant_id # "" THEN _tenant_policies[<<tenant_id, department>>] ELSE <<>>

get_policy(department, tenant_id) ==
    IF tenant_id # "" /\ _tenant_policies[<<tenant_id, department>>] # <<>>
    THEN _tenant_policies[<<tenant_id, department>>]
    ELSE _policies[department]

resolve_policy(department, tenant_id) ==
    IF get_policy(department, tenant_id) # <<>>
    THEN get_policy(department, tenant_id)
    ELSE _base_policy

get_policy_version(department, tenant_id) ==
    LET policy == resolve_policy(department, tenant_id)
    IN  IF policy = <<>> THEN "unknown"
        ELSE IF policy[1].tenant_id # ""
             THEN policy[1].tenant_id \o ":" \o policy[1].department \o "-v" \o policy[1].version
             ELSE policy[1].department \o "-v" \o policy[1].version

\* The rule filters of the scan: a rule is skipped on its task_type or on its complexity.
rule_skipped(rule, c) ==
    \/ rule.task_type # "" /\ rule.task_type # c.task_type
    \/ rule.complexity # "" /\ rule.complexity # c.complexity

\* The scan that returns the last rule whose filters accept the classification.
_find_rule_with_trace_last(policy, c, r) ==
    LET hits == {i \in 1..Len(policy.rules) : ~rule_skipped(policy.rules[i], c)}
    IN  IF hits # {}
        THEN LET k == CHOOSE i \in hits : \A j \in hits : i >= j
             IN  [rule |-> policy.rules[k],
                  trace |-> [i \in 1..k |->
                                PolicyTraceEntry(policy.rules[i].name,
                                                 IF i < k THEN "skipped" ELSE "matched")]]
        ELSE LET skips == [i \in 1..Len(policy.rules) |->
                                PolicyTraceEntry(policy.rules[i].name, "skipped")]
             IN  IF policy.default_rule # <<>>
                 THEN [rule |-> policy.default_rule[1],
                       trace |-> Append(skips,
                                   PolicyTraceEntry(policy.default_rule[1].name, "matched"))]
                 ELSE [rule |-> _emergency_fallback(r),
                       trace |-> Append(skips,
                                   PolicyTraceEntry("emergency_fallback", "matched"))]

\* _find_rule_with_trace, lines 278-311
_find_rule_with_trace(policy, c, r) ==
    LET hits == {i \in 1..Len(policy.rules) : ~rule_skipped(policy.rules[i], c)}
    IN  IF hits # {}
        THEN LET k == CHOOSE i \in hits : \A j \in hits : i <= j
             IN  [rule |-> policy.rules[k],
                  trace |-> [i \in 1..k |->
                                PolicyTraceEntry(policy.rules[i].name,
                                                 IF i < k THEN "skipped" ELSE "matched")]]
        ELSE LET skips == [i \in 1..Len(policy.rules) |->
                                PolicyTraceEntry(policy.rules[i].name, "skipped")]
             IN  IF policy.default_rule # <<>>
                 THEN [rule |-> policy.default_rule[1],
                       trace |-> Append(skips,
                                   PolicyTraceEntry(policy.default_rule[1].name, "matched"))]
                 ELSE [rule |-> _emergency_fallback(r),
                       trace |-> Append(skips,
                                   PolicyTraceEntry("emergency_fallback", "matched"))]

\* The tier search with "at most the target tier" in place of "equal to the target tier".
_downgrade_to_tier_atmost(policy, target_tier, fallback) ==
    LET hits == {i \in 1..Len(policy.rules) :
                    _tier_rank(policy.rules[i].model_tier) <= _tier_rank(target_tier)}
    IN  IF hits # {}
        THEN policy.rules[CHOOSE i \in hits : \A j \in hits : i <= j]
        ELSE fallback

_downgrade_to_tier(policy, target_tier, fallback) ==
    LET hits == {i \in 1..Len(policy.rules) : policy.rules[i].model_tier = target_tier}
    IN  IF hits # {}
        THEN policy.rules[CHOOSE i \in hits : \A j \in hits : i <= j]
        ELSE fallback

tier_order == <<"powerful", "balanced", "fast_cheap", "local">>

\* _downgrade_one_tier, lines 313-323.  model_tier of a rule is an unvalidated
\* string: for one that names no tier, ModelTier(...) raises ValueError and the
\* except clause of line 320 takes fast_cheap as the target
_downgrade_one_tier(policy, current) ==
    LET target_tier ==
            IF current.model_tier \in ModelTier
            THEN LET current_idx == CHOOSE i \in 1..Len(tier_order) :
                                        tier_order[i] = current.model_tier
                 IN  tier_order[IF current_idx + 1 <= Len(tier_order)
                                THEN current_idx + 1 ELSE Len(tier_order)]
            ELSE "fast_cheap"
    IN  _downgrade_to_tier(policy, target_tier, current)

\* [m for m in fallback_models if is_provider_allowed(self._infer_provider(m), risk)]
clean_fallbacks(fallback_models, r) ==
    SelectSeq(fallback_models,
              LAMBDA m : is_provider_allowed(PolicyEngine__infer_provider(m), r))

\* min(allowed_candidates, key=tier rank): the first element of minimal rank
min_by_tier(rules) ==
    rules[CHOOSE i \in 1..Len(rules) :
            /\ \A j \in 1..Len(rules) :
                  _tier_rank(rules[i].model_tier) <= _tier_rank(rules[j].model_tier)
            /\ \A j \in 1..(i - 1) :
                  _tier_rank(rules[j].model_tier) > _tier_rank(rules[i].model_tier)]

\* The risk gate with every rule of the policy as a candidate (no tier filter).
_enforce_risk_floor_anytier(policy, r, current) ==
    IF is_provider_allowed(current.provider, r)
    THEN [current EXCEPT !.fallback_models = clean_fallbacks(current.fallback_models, r)]
    ELSE LET resolved_candidates == [i \in 1..Len(policy.rules) |-> _resolve_rule(policy.rules[i])]
             allowed_candidates == SelectSeq(resolved_candidates,
                 LAMBDA x : is_provider_allowed(x.provider, r))
             upgraded == IF allowed_candidates # <<>>
                         THEN min_by_tier(allowed_candidates)
                         ELSE current
         IN  [upgraded EXCEPT !.fallback_models = clean_fallbacks(upgraded.fallback_models, r)]

_enforce_risk_floor(policy, r, current) ==
    IF is_provider_allowed(current.provider, r)
    THEN [current EXCEPT !.fallback_models = clean_fallbacks(current.fallback_models, r)]
    ELSE LET min_tier == r.required_min_tier
             candidates == SelectSeq(policy.rules,
                 LAMBDA x : \/ _tier_rank(x.model_tier) >= _tier_rank(min_tier)
                            \/ x.model_tier = "local")
             resolved_candidates == [i \in 1..Len(candidates) |-> _resolve_rule(candidates[i])]
             allowed_candidates == SelectSeq(resolved_candidates,
                 LAMBDA x : is_provider_allowed(x.provider, r))
             upgraded == IF allowed_candidates # <<>>
                         THEN min_by_tier(allowed_candidates)
                         ELSE current
         IN  [upgraded EXCEPT !.fallback_models = clean_fallbacks(upgraded.fallback_models, r)]

\* match, lines 99-123: policy selection, rule scan, virtual-model resolution.
\* The result is (rule, trace, constraints) as a record.
match_scan(policy, c, r, tenant_id) ==
    LET found == _find_rule_with_trace(policy, c, r)
        select == IF tenant_id # "" /\ policy.tenant_id = tenant_id
                  THEN <<PolicyTraceEntry("tenant_policy_select", "matched")>>
                  ELSE <<>>
    IN  [rule |-> _resolve_rule(found.rule),
         trace |-> select \o found.trace,
         constraints |-> <<>>]

\* match, lines 125-141: the risk gate.
\* The gate that leaves no trace entry when it keeps the rule.
match_risk_gate_silent(policy, r, m) ==
    IF r.risk_level # "low"
    THEN LET before == m.rule.name
             gated == _enforce_risk_floor(policy, r, m.rule)
         IN  IF gated.name # before
             THEN [rule |-> gated,
                   trace |-> Append(m.trace,
                               PolicyTraceEntry("risk_gate_" \o r.risk_level, "risk_override")),
                   constraints |-> Append(m.constraints, "risk_floor_" \o r.risk_level)]
             ELSE [rule |-> gated, trace |-> m.trace, constraints |-> m.constraints]
    ELSE m

match_risk_gate(policy, r, m) ==
    IF r.risk_level # "low"
    THEN LET before == m.rule.name
             gated == _enforce_risk_floor(policy, r, m.rule)
         IN  IF gated.name # before
             THEN [rule |-> gated,
                   trace |-> Append(m.trace,
                               PolicyTraceEntry("risk_gate_" \o r.risk_level, "risk_override")),
                   constraints |-> Append(m.constraints, "risk_floor_" \o r.risk_level)]
             ELSE [rule |-> gated,
                   trace |-> Append(m.trace,
                               PolicyTraceEntry("risk_gate_" \o r.risk_level, "matched")),
                   constraints |-> m.constraints]
    ELSE m

\* The static budget cap with the floor test left out.
match_static_cap_nofloor(policy, risk_floor, m) ==
    LET max_tier_value == policy.budget_controls.max_tier
    IN  IF max_tier_value # "" /\ max_tier_value \in ModelTier
              /\ m.rule.model_tier \in ModelTier
        THEN IF _tier_rank(m.rule.model_tier) > _tier_rank(max_tier_value)
             THEN [rule |-> _downgrade_to_tier(policy, max_tier_value, m.rule),
                   trace |-> Append(m.trace,
                       PolicyTraceEntry("budget_guard_max_tier", "budget_override")),
                   constraints |-> Append(m.constraints,
                       "budget_max_tier_" \o max_tier_value)]
             ELSE m
        ELSE m

\* match, lines 145-163: the static budget cap.  ModelTier(...) of lines 149-150
\* raises ValueError for a string that names no tier; line 162 catches it and
\* the rule is left as it is
match_static_cap(policy, risk_floor, m) ==
    LET max_tier_value == policy.budget_controls.max_tier
    IN  IF max_tier_value # "" /\ max_tier_value \in ModelTier
              /\ m.rule.model_tier \in ModelTier
        THEN IF _tier_rank(m.rule.model_tier) > _tier_rank(max_tier_value)
             THEN LET capped == _downgrade_to_tier(policy, max_tier_value, m.rule)
                  IN  IF _tier_rank(capped.model_tier) >= _tier_rank(risk_floor)
                      THEN [rule |-> capped,
                            trace |-> Append(m.trace,
                                PolicyTraceEntry("budget_guard_max_tier", "budget_override")),
                            constraints |-> Append(m.constraints,
                                "budget_max_tier_" \o max_tier_value)]
                      ELSE m
             ELSE m
        ELSE m

\* match, lines 165-184: the budget guardrails.
match_budget_guard(policy, risk_floor, pct, m) ==
    IF float_ge_int(pct, policy.budget_controls.force_cheap_at_percent)
    THEN IF _tier_rank("fast_cheap") >= _tier_rank(risk_floor)
         THEN [rule |-> _downgrade_to_tier(policy, "fast_cheap", m.rule),
               trace |-> Append(m.trace,
                           PolicyTraceEntry("budget_guard_force_cheap", "budget_override")),
               constraints |-> Append(m.constraints, "budget_force_cheap")]
         ELSE m
    ELSE IF float_ge_int(pct, policy.budget_controls.downgrade_at_percent)
    THEN LET candidate == _downgrade_one_tier(policy, m.rule)
         IN  IF _tier_rank(candidate.model_tier) >= _tier_rank(risk_floor)
             THEN [rule |-> candidate,
                   trace |-> Append(m.trace,
                               PolicyTraceEntry("budget_guard_downgrade", "budget_override")),
                   constraints |-> Append(m.constraints, "budget_downgrade")]
             ELSE m
    ELSE m

\* _enforce_risk_floor, lines 227-232: with the current provider forbidden, the
\* tier of every rule of the policy goes through ModelTier(...), which raises
\* ValueError for a string that names no tier
_enforce_risk_floor_raises(policy, r, current) ==
    /\ ~is_provider_allowed(current.provider, r)
    /\ \E i \in 1..Len(policy.rules) : policy.rules[i].model_tier \notin ModelTier

\* The rule that leaves the risk gate and enters the budget steps (policy resolved).
match_gated(policy, c, r, tenant_id) ==
    match_risk_gate(policy, r, match_scan(policy, c, r, tenant_id))

\* match, lines 102-103: policy = self.get_policy(...) or self._base_policy
match_select(department, tenant_id) ==
    IF get_policy(department, tenant_id) # <<>>
    THEN get_policy(department, tenant_id)
    ELSE _base_policy

\* match raises ValueError: in the risk gate (line 231), or at line 177 when the
\* candidate of the one-tier downgrade has a tier string that names no tier
match_raises(c, r, pct, tenant_id) ==
    LET policy == match_select(c.department, tenant_id)
    IN  /\ policy # <<>>
        /\ \/ /\ r.risk_level # "low"
              /\ _enforce_risk_floor_raises(policy[1], r,
                     match_scan(policy[1], c, r, tenant_id).rule)
           \/ LET capped == match_static_cap(policy[1], r.required_min_tier,
                                match_gated(policy[1], c, r, tenant_id))
                  controls == policy[1].budget_controls
              IN  /\ ~float_ge_int(pct, controls.force_cheap_at_percent)
                  /\ float_ge_int(pct, controls.downgrade_at_percent)
                  /\ _downgrade_one_tier(policy[1], capped.rule).model_tier \notin ModelTier

\* match, lines 85-186, for a call that returns
match(c, r, pct, tenant_id) ==
    LET policy == match_select(c.department, tenant_id)
    IN  IF policy = <<>>
        THEN [rule |-> _resolve_rule(_emergency_fallback(r)),
              trace |-> <<PolicyTraceEntry("emergency_fallback", "matched")>>,
              constraints |-> <<>>]
        ELSE match_budget_guard(policy[1], r.required_min_tier, pct,
                match_static_cap(policy[1], r.required_min_tier,
                    match_gated(policy[1], c, r, tenant_id)))

(***************************************************************************)
(* routing/engine.py: RoutingEngine                                        *)
(***************************************************************************)
RoutingEngine__infer_provider(model) ==
    IF startswith(model, <<"c","l","a","u","d","e">>) THEN "anthropic"
    ELSE IF \/ startswith(model, <<"g","p","t">>)
            \/ startswith(model, <<"o","1">>)
            \/ startswith(model, <<"o","3">>) THEN "openai"
    ELSE IF startswith(model, <<"g","e","m","i","n","i">>) THEN "gemini"
    ELSE IF \/ startswith(model, <<"l","l","a","m","a">>)
            \/ startswith(model, <<"c","o","d","e","l","l","a","m","a">>)
            \/ startswith(model, <<"d","e","e","p","s","e","e","k">>) THEN "ollama"
    ELSE "openai"

\* route, lines 144-148: [(primary, provider)] + [(m, infer(m)) for m in fallback_models]
build_models_to_try(rule) ==
    <<[model |-> rule.primary_model, provider |-> rule.provider]>> \o
    [i \in 1..Len(rule.fallback_models) |->
        [model |-> rule.fallback_models[i],
         provider |-> RoutingEngine__infer_provider(rule.fallback_models[i])]]

\* The bookkeeping of an attempt that marks the fallback but keeps the primary's names.
attempt_locals_stale(i, cand, fu, am, ap) ==
    IF i > 1
    THEN [fallback_used |-> TRUE, actual_model |-> am, actual_provider_name |-> ap]
    ELSE [fallback_used |-> fu, actual_model |-> am, actual_provider_name |-> ap]

\* route, lines 162-165: the locals after the bookkeeping of attempt i (1-based)
attempt_locals(i, cand, fu, am, ap) ==
    IF i > 1
    THEN [fallback_used |-> TRUE, actual_model |-> cand.model, actual_provider_name |-> cand.provider]
    ELSE [fallback_used |-> fu, actual_model |-> am, actual_provider_name |-> ap]

\* middleware/request_id.py: the id given to a request that brings none
x_request_id == "rb-0123456789ab"

\* route, lines 182-203 and 222-246: the outcome, with the fields that the
\* RoutingOutcome of models/routing.py (lines 80-97) declares (rule_matched and
\* model_tier are those of its routing_decision)
RoutingOutcome(loc, m, r) ==
    [request_id |-> x_request_id,
     actual_model_used |-> loc.actual_model,
     actual_provider |-> loc.actual_provider_name,
     fallback_used |-> loc.fallback_used,
     rule_matched |-> m.rule.name,
     model_tier |-> m.rule.model_tier,
     risk_level |-> r.risk_level,
     audit_required |-> r.audit_required,
     error |-> ""]

\* The outcome with the policy fields of the data model: route passes
\* policy_version, policy_trace and constraints_applied to RoutingOutcome
\* (engine.py, lines 191-198 and 231-238), chat_completions and build_record read
\* them from the outcome (chat.py, lines 34-59 and 94; audit_log.py, lines 99-103),
\* and the class that declares them is not among the sources.
outcome_with_policy(o, m, version) ==
    [request_id |-> o.request_id,
     actual_model_used |-> o.actual_model_used,
     actual_provider |-> o.actual_provider,
     fallback_used |-> o.fallback_used,
     rule_matched |-> o.rule_matched,
     model_tier |-> o.model_tier,
     policy_version |-> version,
     risk_level |-> o.risk_level,
     audit_required |-> o.audit_required,
     policy_trace |-> m.trace,
     constraints_applied |-> m.constraints,
     error |-> o.error]

(***************************************************************************)
(* core/exceptions.py                                                      *)
(***************************************************************************)
RoutingError_status_code == 451

RoutingError(governance_blocked) ==
    [status_code |-> RoutingError_status_code,
     error_code |-> "routing_error",
     governance_blocked |-> governance_blocked]

routing_brain_exception_handler(exc) == exc.status_code

(***************************************************************************)
(* observability/audit_log.py                                              *)
(***************************************************************************)
\* json.dumps(record, default=str) of line 47: the text of a record that can be
\* serialised, as the pieces of text that the model tells apart (the braces and
\* the request_id stand for the object and its members)
json_dumps(record) == <<"{", record.request_id, "}">>

\* the exception that json.dumps raises for a record: ValueError for a circular
\* reference, RecursionError for a nesting deeper than the interpreter allows,
\* TypeError for a key that is no str, int, float, bool or None; "" for none
json_dumps_exception(record) ==
    IF "dumps_raises" \in DOMAIN record THEN record.dumps_raises ELSE ""

json_dumps_raises(record) == json_dumps_exception(record) # ""

\* open(self._path, "a") followed by f.write(text) and the close: the text
\* goes after what the file holds
file_write_a(content, line) == content \o line

\* lines 49-50: the outcomes of the open and the write of a line.  The whole
\* line reaches the file; or OSError is raised by the open, with the file as it
\* was, or by the write or the close, with the first n pieces of the line in
\* the file (no space left, a file size limit)
file_write_outcomes(content, line) ==
    {[content |-> file_write_a(content, SubSeq(line, 1, n)),
      raises |-> IF n < Len(line) THEN "OSError" ELSE ""] : n \in 0..Len(line)}

\* The exception classes of Python and of the store's client, each with its
\* base class.
ExceptionClasses ==
    { <<"Exception", "BaseException">>, <<"GeneratorExit", "BaseException">>,
      <<"KeyboardInterrupt", "BaseException">>, <<"SystemExit", "BaseException">>,
      <<"asyncio.CancelledError", "BaseException">>,
      <<"ArithmeticError", "Exception">>, <<"FloatingPointError", "ArithmeticError">>,
      <<"OverflowError", "ArithmeticError">>, <<"ZeroDivisionError", "ArithmeticError">>,
      <<"AssertionError", "Exception">>, <<"AttributeError", "Exception">>,
      <<"BufferError", "Exception">>, <<"EOFError", "Exception">>,
      <<"ImportError", "Exception">>, <<"ModuleNotFoundError", "ImportError">>,
      <<"LookupError", "Exception">>, <<"IndexError", "LookupError">>,
      <<"KeyError", "LookupError">>, <<"MemoryError", "Exception">>,
      <<"NameError", "Exception">>, <<"UnboundLocalError", "NameError">>,
      <<"OSError", "Exception">>, <<"BlockingIOError", "OSError">>,
      <<"ChildProcessError", "OSError">>, <<"ConnectionError", "OSError">>,
      <<"BrokenPipeError", "ConnectionError">>,
      <<"ConnectionAbortedError", "ConnectionError">>,
      <<"ConnectionRefusedError", "ConnectionError">>,
      <<"ConnectionResetError", "ConnectionError">>, <<"FileExistsError", "OSError">>,
      <<"FileNotFoundError", "OSError">>, <<"InterruptedError", "OSError">>,
      <<"IsADirectoryError", "OSError">>, <<"NotADirectoryError", "OSError">>,
      <<"PermissionError", "OSError">>, <<"ProcessLookupError", "OSError">>,
      <<"TimeoutError", "OSError">>, <<"ReferenceError", "Exception">>,
      <<"RuntimeError", "Exception">>, <<"NotImplementedError", "RuntimeError">>,
      <<"RecursionError", "RuntimeError">>, <<"StopAsyncIteration", "Exception">>,
      <<"StopIteration", "Exception">>, <<"SyntaxError", "Exception">>,
      <<"SystemError", "Exception">>, <<"TypeError", "Exception">>,
      <<"ValueError", "Exception">>, <<"UnicodeError", "ValueError">>,
      <<"UnicodeDecodeError", "UnicodeError">>, <<"UnicodeEncodeError", "UnicodeError">>,
      <<"Warning", "Exception">>,
      <<"redis.RedisError", "Exception">>, <<"redis.ConnectionError", "redis.RedisError">>,
      <<"redis.TimeoutError", "redis.RedisError">>,
      <<"redis.ResponseError", "redis.RedisError">>,
      <<"redis.BusyLoadingError", "redis.ConnectionError">> }

\* issubclass(cls, base) for exception classes
RECURSIVE issubclass(_, _)
issubclass(cls, base) ==
    \/ cls = base
    \/ \E c \in ExceptionClasses : c[1] = cls /\ issubclass(c[2], base)

\* except Exception, line 51: the clause catches the instances of Exception and of
\* its subclasses, and no other BaseException
caught_by_except_Exception(exc) == issubclass(exc, "Exception")

\* build_record, lines 55-128: the fields of the record that the model keeps
build_record(o) ==
    [request_id |-> o.request_id,
     policy_version |-> o.policy_version,
     rule_matched |-> o.rule_matched,
     risk_level |-> o.risk_level,
     audit_required |-> o.audit_required,
     model_selected |-> o.actual_model_used,
     provider |-> o.actual_provider,
     fallback_used |-> o.fallback_used,
     error |-> o.error]

(***************************************************************************)
(* api/v1/chat.py: the body of a streaming response.  An element of the    *)
(* body is an SSE frame: its event name ("" for a frame without one), the  *)
(* routing payload of a routing_decision frame, the data of a chunk.       *)
(***************************************************************************)
_routing_decision_payload(o) ==
    [policy_version |-> o.policy_version,
     model_selected |-> o.actual_model_used,
     provider |-> o.actual_provider,
     model_tier |-> o.model_tier,
     rule_matched |-> o.rule_matched,
     fallback_used |-> o.fallback_used,
     risk_level |-> o.risk_level,
     audit_required |-> o.audit_required,
     policy_trace |-> o.policy_trace,
     constraints_applied |-> o.constraints_applied]

routing_event(o) ==
    [event |-> "routing_decision", payload |-> <<_routing_decision_payload(o)>>, data |-> ""]

\* BaseProvider._sse_line: a chunk of the upstream provider
_sse_line(data) == [event |-> "", payload |-> <<>>, data |-> data]

\* The generator that yields the event after the first chunk of the stream.
_prepend_routing_event_late(o, stream) ==
    IF stream = <<>> THEN <<>>
    ELSE <<Head(stream), routing_event(o)>> \o Tail(stream)

\* _prepend_routing_event: what the generator has yielded when the upstream
\* generator has yielded stream
_prepend_routing_event(o, stream) == <<routing_event(o)>> \o stream

\* str(outcome.audit_required).lower()
str_lower(b) == IF b THEN "true" ELSE "false"

\* chat_completions, lines 98-125: the headers of the response, for a streaming
\* request (lines 102-112) and for a non-streaming request (lines 121-124)
response_headers_of(stream, o, c) ==
    IF stream
    THEN [h \in {"X-Request-Id", "X-Routing-Model", "X-Routing-Provider", "X-Task-Type",
                 "X-Complexity", "X-Risk-Level", "X-Audit-Required", "Cache-Control",
                 "Connection"} |->
            CASE h = "X-Request-Id" -> <<x_request_id>>
              [] h = "X-Routing-Model" -> o.actual_model_used
              [] h = "X-Routing-Provider" -> <<o.actual_provider>>
              [] h = "X-Task-Type" -> <<c.task_type>>
              [] h = "X-Complexity" -> <<c.complexity>>
              [] h = "X-Risk-Level" -> <<o.risk_level>>
              [] h = "X-Audit-Required" -> <<str_lower(o.audit_required)>>
              [] h = "Cache-Control" -> <<"no-cache">>
              [] h = "Connection" -> <<"keep-alive">>]
    ELSE [h \in {"X-Request-Id", "X-Routing-Model"} |->
            CASE h = "X-Request-Id" -> <<x_request_id>>
              [] h = "X-Routing-Model" -> o.actual_model_used]

(***************************************************************************)
(* storage/budget_tracker.py: BudgetTracker over the key-value store.      *)
(* An instant is a number of milliseconds since the start of UTC day 0.    *)
(* Amounts are in micro-USD, the sixth decimal, to which estimate_cost_usd *)
(* rounds; a price is in USD cents per million tokens.                     *)
(* The store maps a key to its value and the instant at which it expires.  *)
(***************************************************************************)
DateKeys == <<"20260101", "20260102", "20260103">>

\* line 67: the UTC date of the instant t
_date_key(t) == DateKeys[(t \div 86400000) + 1]

\* lines 70-72: the time to the next UTC midnight, cut to whole seconds by
\* int(), plus 60
_seconds_until_midnight_utc(t) == ((86400000 - (t % 86400000)) \div 1000) + 60

_tenant_key(tenant_id, t) == "rb:budget:tenant:" \o tenant_id \o ":" \o _date_key(t)

_user_key(tenant_id, user_id, t) ==
    "rb:budget:user:" \o tenant_id \o ":" \o user_id \o ":" \o _date_key(t)

EmptyStore == [k \in {} |-> [value |-> 0, expire_at |-> 0]]

\* a key is there until its expiry instant (expire_at = -1: no expiry set)
kv_live(store, k, t) ==
    k \in DOMAIN store /\ (store[k].expire_at = -1 \/ store[k].expire_at > t)

\* GET / MGET of one key: the value, 0 for a missing key (float(val or 0.0))
kv_get(store, k, t) == IF kv_live(store, k, t) THEN store[k].value ELSE 0

kv_put(store, k, rec) ==
    [x \in (DOMAIN store) \cup {k} |-> IF x = k THEN rec ELSE store[x]]

incrbyfloat(store, k, amount, t) ==
    kv_put(store, k,
           [value |-> kv_get(store, k, t) + amount,
            expire_at |-> IF kv_live(store, k, t) THEN store[k].expire_at ELSE -1])

\* EXPIRE k ttl at the instant t, ttl in seconds
expire(store, k, ttl, t) ==
    IF kv_live(store, k, t)
    THEN kv_put(store, k, [value |-> store[k].value, expire_at |-> t + ttl * 1000])
    ELSE store

\* record_spend, lines 156-161: the MULTI/EXEC pipeline, applied as a whole
pipeline_execute(store, t_key, u_key, amount_usd, ttl, t) ==
    LET s1 == incrbyfloat(store, t_key, amount_usd, t)
        s2 == expire(s1, t_key, ttl, t)
        s3 == incrbyfloat(s2, u_key, amount_usd, t)
    IN  expire(s3, u_key, ttl, t)

\* the exceptions with which a call of the store's client fails: the connection
\* is lost or times out
StoreExceptions == {"redis.ConnectionError", "redis.TimeoutError"}

\* The outcomes of a store operation: whether the store applied it, and the
\* exception that the client raises, "" for none.  An operation that was
\* applied and raises is one whose reply was lost.
KvOk == [applied |-> TRUE, raises |-> ""]

KvFailures == [applied : BOOLEAN, raises : StoreExceptions]

KvOutcomes == {KvOk} \cup KvFailures

or_unknown(s) == IF s = "" THEN "unknown" ELSE s

ModelPrice(input_cost_per_mtok, output_cost_per_mtok) ==
    [input_cost_per_mtok |-> input_cost_per_mtok,
     output_cost_per_mtok |-> output_cost_per_mtok]

TIER_FALLBACK_PRICE_PER_MTOK ==
    [fast_cheap |-> 80, balanced |-> 300, powerful |-> 1500, local |-> 0]

\* _load_prices, lines 41-64: the entries of the models list of models.yaml that
\* have a model_id, a later entry replacing an earlier one of the same id
_load_prices(file) ==
    IF file = <<>> THEN [id \in {} |-> ModelPrice(0, 0)]
    ELSE LET models == SelectSeq(file[1].models, LAMBDA e : e.model_id # <<>>)
             last(id) == CHOOSE i \in 1..Len(models) :
                            /\ models[i].model_id = id
                            /\ \A j \in (i + 1)..Len(models) : models[j].model_id # id
         IN  [id \in {models[i].model_id : i \in 1..Len(models)} |->
                ModelPrice(models[last(id)].input_cost_per_mtok,
                           models[last(id)].output_cost_per_mtok)]

\* estimate_cost_usd, lines 127-141; a price is a number of USD cents per
\* million tokens, that is the float of cents / 100 USD
estimate_cost_usd(prices, model_id, prompt_tokens, completion_tokens, tier) ==
    IF model_id \in DOMAIN prices
    THEN round6(float_add[
             float_mul[float_div[prompt_tokens, 1000000],
                       float_div[prices[model_id].input_cost_per_mtok, 100]],
             float_mul[float_div[completion_tokens, 1000000],
                       float_div[prices[model_id].output_cost_per_mtok, 100]]])
    ELSE round6(float_mul[float_div[prompt_tokens + completion_tokens, 1000000],
                          float_div[IF tier \in DOMAIN TIER_FALLBACK_PRICE_PER_MTOK
                                    THEN TIER_FALLBACK_PRICE_PER_MTOK[tier]
                                    ELSE 300, 100]])

max2(a, b) == IF a >= b THEN a ELSE b

\* float(val) of lines 93-94 and the limits of the policy file: the float of
\* an amount of micro-USD, in USD
usd_float(micro_usd) == float_div[micro_usd, 1000000]

\* lines 99 and 103: (spend / limit) * 100.0
spend_pct(spend, limit) ==
    float_mul[float_truediv[usd_float(spend), usd_float(limit)], float_div[100, 1]]

\* The read that fails closed: a failed MGET counts as a spent budget.
get_budget_pct_fail_closed(controls, read) ==
    IF controls.daily_limit_usd_per_tenant = 0 /\ controls.daily_limit_usd_per_user = 0
    THEN float_zero
    ELSE IF read.raises # "" THEN float_of_int(100)
    ELSE LET tenant_pct == IF controls.daily_limit_usd_per_tenant # 0
                           THEN spend_pct(read.tenant_val,
                                          controls.daily_limit_usd_per_tenant)
                           ELSE float_zero
             user_pct == IF controls.daily_limit_usd_per_user # 0
                         THEN spend_pct(read.user_val, controls.daily_limit_usd_per_user)
                         ELSE float_zero
         IN  float_norm[float_max(tenant_pct, user_pct)]

\* get_budget_pct, lines 86-106, for a call that returns: read is [raises,
\* tenant_val, user_val], the result of the MGET; the exception of a failed
\* MGET is caught at line 95
get_budget_pct(controls, read) ==
    IF controls.daily_limit_usd_per_tenant = 0 /\ controls.daily_limit_usd_per_user = 0
    THEN float_zero
    ELSE IF read.raises # "" THEN float_zero
    ELSE LET tenant_pct == IF controls.daily_limit_usd_per_tenant # 0
                           THEN spend_pct(read.tenant_val,
                                          controls.daily_limit_usd_per_tenant)
                           ELSE float_zero
             user_pct == IF controls.daily_limit_usd_per_user # 0
                         THEN spend_pct(read.user_val, controls.daily_limit_usd_per_user)
                         ELSE float_zero
         IN  float_norm[float_max(tenant_pct, user_pct)]

\* get_budget_pct raises: the MGET has failed with an exception that the
\* except clause of line 95 does not catch
get_budget_pct_raises(controls, read) ==
    /\ controls.daily_limit_usd_per_tenant # 0 \/ controls.daily_limit_usd_per_user # 0
    /\ read.raises # ""
    /\ ~caught_by_except_Exception(read.raises)

\* get_budget_pct, lines 89-92: the tenant key is computed when the clock shows
\* t_tenant, the user key when it shows t_user, and the store serves the MGET of
\* the two keys at t_exec
mget(store, tenant_id, user_id, t_tenant, t_user, t_exec, kv) ==
    LET t_key == _tenant_key(tenant_id, t_tenant)
        u_key == _user_key(tenant_id, user_id, t_user)
    IN  [raises |-> kv.raises,
         tenant_val |-> kv_get(store, t_key, t_exec),
         user_val |-> kv_get(store, u_key, t_exec)]

\* The write without the test of the amount.
record_spend_unguarded(store, tenant_id, user_id, amount_usd, t_tenant, t_user, t_ttl, t_exec, kv) ==
    [store |-> IF ~kv.applied THEN store
               ELSE pipeline_execute(store, _tenant_key(tenant_id, t_tenant),
                                     _user_key(tenant_id, user_id, t_user), amount_usd,
                                     _seconds_until_midnight_utc(t_ttl), t_exec),
     raised |-> kv.raises # "" /\ ~caught_by_except_Exception(kv.raises)]

\* record_spend, lines 149-163: the clock is read three times, for the tenant key
\* (line 152, t_tenant), the user key (153, t_user) and the TTL (154, t_ttl), and
\* the store executes the pipeline at t_exec: the store after the call, and
\* whether the call raised, that is, whether the pipeline failed with an
\* exception that the except clause of line 162 does not catch
record_spend(store, tenant_id, user_id, amount_usd, t_tenant, t_user, t_ttl, t_exec, kv) ==
    IF amount_usd <= 0 THEN [store |-> store, raised |-> FALSE]
    ELSE [store |-> IF ~kv.applied THEN store
                    ELSE pipeline_execute(store, _tenant_key(tenant_id, t_tenant),
                                          _user_key(tenant_id, user_id, t_user), amount_usd,
                                          _seconds_until_midnight_utc(t_ttl), t_exec),
          raised |-> kv.raises # "" /\ ~caught_by_except_Exception(kv.raises)]

(***************************************************************************)
(* routing/routing_brain.py: RoutingBrain.classify.                        *)
(* A confidence is in hundredths.                                          *)
(***************************************************************************)
TaskType ==
    {"code_generation", "code_review", "test_generation", "debugging",
     "architecture_design", "documentation", "requirement_analysis", "question_answer",
     "data_analysis", "math_reasoning", "general"}

Complexity == {"simple", "medium", "complex"}

Department == {"rd", "sales", "marketing", "hr", "finance", "general"}

routing_brain_confidence_threshold == 60

ClassificationResult(task_type, complexity, department, confidence, classified_by) ==
    [task_type |-> task_type, complexity |-> complexity, department |-> department,
     confidence |-> confidence, classified_by |-> classified_by]

_heuristic_fallback(pre_analysis) ==
    ClassificationResult(
        IF pre_analysis.heuristic_task_type # "" THEN pre_analysis.heuristic_task_type
        ELSE "general",
        IF pre_analysis.heuristic_complexity # "" THEN pre_analysis.heuristic_complexity
        ELSE "medium",
        IF pre_analysis.department_hint \in Department THEN pre_analysis.department_hint
        ELSE "general",
        50, "heuristic_fallback")

\* classify, lines 143-152: the fields of the parsed JSON, with their defaults;
\* an enum or float conversion or the validation of the result may raise ValueError
data_get(value, default) == IF value = "" THEN default ELSE value

data_confidence(data) == IF data.confidence_kind = "missing" THEN 50 ELSE data.confidence

result_is_valid(data) ==
    /\ data_get(data.task_type, "general") \in TaskType
    /\ data_get(data.complexity, "medium") \in Complexity
    /\ data_get(data.department, "general") \in Department
    /\ data.others_valid
    /\ data.confidence_kind # "text"
    /\ data_confidence(data) >= 0
    /\ data_confidence(data) <= 100

\* _load_system_prompt, lines 24-32: raises when the file exists and cannot be read
prompt_load_raises(prompt) == prompt = "unreadable"

\* classify: up is what the call of the classifier model gave: a timeout, an
\* upstream error, a response without content, text that is not JSON, or JSON
classify(api_key, prompt, pre_analysis, up) ==
    IF ~api_key THEN [raised |-> FALSE, result |-> <<_heuristic_fallback(pre_analysis)>>]
    ELSE IF prompt_load_raises(prompt) THEN [raised |-> TRUE, result |-> <<>>]
    ELSE IF up.kind # "json" \/ ~result_is_valid(up.data)
         THEN [raised |-> FALSE, result |-> <<_heuristic_fallback(pre_analysis)>>]
    ELSE IF data_confidence(up.data) < routing_brain_confidence_threshold
         THEN [raised |-> FALSE, result |-> <<_heuristic_fallback(pre_analysis)>>]
    ELSE [raised |-> FALSE,
          result |-> <<ClassificationResult(data_get(up.data.task_type, "general"),
                           data_get(up.data.complexity, "medium"),
                           data_get(up.data.department, "general"),
                           data_confidence(up.data), "meta_llm")>>]

(***************************************************************************)
(* The configurations and requests explored.                               *)
(***************************************************************************)
Departments == {"rd"}
Tenants == {"t1"}

\* The rules that the policy files are made of.
RuleCatalogue ==
    { RoutingRule("general_balanced", "", "", M_claude, "anthropic", <<M_llama>>, "balanced"),
      RoutingRule("cheap", "", "", M_gpt, "openai", <<>>, "fast_cheap"),
      RoutingRule("oss_local", "", "", M_llama, "ollama", <<M_mistral>>, "local"),
      RoutingRule("oss_balanced", "", "", M_rb_oss, "", <<M_claude>>, "balanced"),
      RoutingRule("oss_code_cheap", "code_generation", "", M_llama, "ollama", <<>>, "fast_cheap"),
      RoutingRule("oss_powerful", "", "complex", M_llama, "ollama", <<M_gpt>>, "powerful") }

DefaultRules ==
    { <<>>,
      <<RoutingRule("default", "", "", M_claude, "anthropic", <<M_llama, M_llama70b>>,
                    "balanced")>> }

MaxTiers == {"", "fast_cheap", "balanced"}

\* Amounts are in micro-USD; an unset limit (None) is 0, which the code treats alike.
BudgetControls(max_tier) ==
    [daily_limit_usd_per_user |-> 0,
     daily_limit_usd_per_tenant |-> 20,
     max_tier |-> max_tier,
     downgrade_at_percent |-> downgrade_at_percent_default,
     force_cheap_at_percent |-> force_cheap_at_percent_default]

\* the rule lists of the policy files: up to MaxRules rules of the catalogue, none
\* of them twice
RuleLists ==
    UNION {{rules \in [1..n -> RuleCatalogue] :
               \A i, j \in 1..n : rules[i] = rules[j] => i = j} : n \in 0..MaxRules}

DepartmentPolicy(tenant_id, department, rules, max_tier, default_rule) ==
    [tenant_id |-> tenant_id, department |-> department, version |-> "1.0",
     rules |-> rules, budget_controls |-> BudgetControls(max_tier),
     default_rule |-> default_rule]

\* Optional global policy of department rd
Policies ==
    {<<>>} \cup
    { <<DepartmentPolicy("", "rd", rules, mt, d)>> :
        rules \in RuleLists, mt \in MaxTiers, d \in DefaultRules }

\* models.yaml (settings.models_config_path): no file, or a file with one virtual
\* model and the price of one model
ModelsYaml ==
    { <<>>,
      <<[virtual_models |-> [id \in {M_rb_oss} |-> [model |-> M_llama, provider |-> "ollama"]],
         models |-> <<[model_id |-> M_llama, input_cost_per_mtok |-> 105,
                       output_cost_per_mtok |-> 200]>>]>> }

\* ProviderRegistry._init_providers: ollama always, the others when a key is configured
AdapterSets == { {"ollama"}, {"ollama", "anthropic", "openai"} }

Classifications ==
    { [task_type |-> "code_generation", complexity |-> "complex", department |-> "rd"],
      [task_type |-> "general", complexity |-> "simple", department |-> "rd"] }

BudgetPcts == {float_zero, float_of_int(85), float_of_int(105)}

\* The spend of the tenant already in the store when the request arrives:
\* none, 85 % and 105 % of the daily limit of the policies.
RequestStores ==
    { EmptyStore,
      record_spend(EmptyStore, "t1", "u1", 17, 0, 0, 0, 0, KvOk).store,
      record_spend(EmptyStore, "t1", "u1", 21, 0, 0, 0, 0, KvOk).store }

NoMatch == [rule |-> RoutingRule("", "", "", <<>>, "", <<>>, "local"),
            trace |-> <<>>, constraints |-> <<>>]

Init ==
    /\ \E p \in Policies : _policies = [d \in Departments |-> p]
    /\ _tenant_policies = [k \in Tenants \X Departments |-> <<>>]
    /\ _base_policy = <<>>
    /\ \E file \in ModelsYaml :
          /\ _virtual = <<VirtualModelRegistry(file)>>
          /\ _prices = _load_prices(file)
    /\ _providers \in AdapterSets
    /\ request \in [stream : BOOLEAN, x_tenant_id : Tenants, x_user_id : {"u1"}]
    /\ risk = RiskAssessment("low")
    /\ classification = [task_type |-> "general", complexity |-> "simple", department |-> "rd"]
    /\ budget_pct = float_zero
    /\ pc = "received"
    /\ matched = NoMatch
    /\ models_to_try = <<>>
    /\ idx = 0
    /\ fallback_used = FALSE
    /\ actual_model = <<>>
    /\ actual_provider_name = ""
    /\ served_idx = 0
    /\ calls = <<>>
    /\ outcome = <<>>
    /\ error = <<>>
    /\ audit_tasks = <<>>
    /\ audit_log = <<>>
    /\ http_status = 0
    /\ policies_dir = <<>>
    /\ loaded_dir = <<>>
    /\ selected_policy = <<>>
    /\ match_policy = <<>>
    /\ policy_version = ""
    /\ kv_store \in RequestStores
    /\ now = 0
    /\ bt_call = <<>>
    /\ bt_pending = <<>>
    /\ NoLogs
    /\ classify_call = <<>>
    /\ upstream = <<>>
    /\ body = <<>>
    /\ stream_phase = "unopened"

\* What the steps of one request through route and chat_completions leave alone,
\* the BudgetTracker calls apart.
config_vars == <<_policies, _tenant_policies, _base_policy, _virtual, _prices, _providers, request, log_vars,
                 policies_dir, loaded_dir, kv_store, now, bt_pending, classify_call,
                 upstream, body, stream_phase>>

\* route locals, lines 83-106: what route read from the PolicyEngine
policy_reads == <<selected_policy, match_policy, policy_version>>

(***************************************************************************)
(* RoutingEngine.route                                                     *)
(***************************************************************************)
\* What the steps of one request through route and chat_completions leave alone,
\* the store and the record_spend calls apart.
engine_vars == <<_policies, _tenant_policies, _base_policy, _virtual, _prices, _providers,
                 request, call_logs, policies_dir, loaded_dir, now, bt_pending,
                 classify_call, upstream, body, stream_phase>>

\* route, lines 49-77: request id, pre-analysis and risk assessment, then the
\* coroutine waits for the classifier, which returns a classification of cs
RouteClassified(cs) ==
    /\ pc = "received"
    /\ \E level \in RiskLevels, c \in cs :
          /\ risk' = RiskAssessment(level)
          /\ classification' = c
    /\ pc' = "classified"
    /\ UNCHANGED <<config_vars, bt_call, policy_reads, budget_pct, matched, models_to_try, idx,
                   fallback_used, actual_model, actual_provider_name, served_idx, calls,
                   outcome, error, audit_tasks, audit_log, http_status>>

RouteClassify == RouteClassified(Classifications)

\* route, line 118: RoutingDecision validates model_tier against ModelTier; with
\* the ValueError of match, the exceptions that leave route before any dispatch
route_raises(c, r, pct, tenant_id) ==
    \/ match_raises(c, r, pct, tenant_id)
    \/ match(c, r, pct, tenant_id).rule.model_tier \notin ModelTier

\* route, lines 95-153, run without suspension: match, policy version, routing
\* decision, candidates.  An exception other than RoutingBrainError leaves route
\* and chat_completions, and the server answers 500
RouteDecision(c, r, pct) ==
    /\ budget_pct' = pct
    /\ IF route_raises(c, r, pct, request.x_tenant_id)
       THEN /\ http_status' = 500
            /\ pc' = "done"
            /\ UNCHANGED <<matched, models_to_try, actual_model, actual_provider_name,
                           match_policy, policy_version, idx, fallback_used>>
       ELSE /\ LET m == match(c, r, pct, request.x_tenant_id)
               IN  /\ matched' = m
                   /\ models_to_try' = build_models_to_try(m.rule)
                   /\ actual_model' = m.rule.primary_model
                   /\ actual_provider_name' = m.rule.provider
            /\ match_policy' = match_select(c.department, request.x_tenant_id)
            /\ policy_version' = get_policy_version(c.department, request.x_tenant_id)
            /\ idx' = 1
            /\ fallback_used' = FALSE
            /\ pc' = "dispatch"
            /\ UNCHANGED http_status

\* get_budget_pct, line 86: without a daily limit the call returns at once
budget_read_suspends(policy) ==
    /\ policy # <<>>
    /\ \/ policy[1].budget_controls.daily_limit_usd_per_tenant # 0
       \/ policy[1].budget_controls.daily_limit_usd_per_user # 0

\* route, lines 78-93: the classifier has returned; resolve_policy, then up to
\* the suspension in the read of the store, or, when get_budget_pct returns
\* without reading, on to line 153
RouteResolvePolicy ==
    /\ pc = "classified"
    /\ LET sel == resolve_policy(classification.department, request.x_tenant_id)
       IN  /\ selected_policy' = sel
           /\ IF budget_read_suspends(sel)
              THEN /\ pc' = "budget_read"
                   /\ UNCHANGED <<budget_pct, matched, models_to_try, idx, fallback_used,
                                  actual_model, actual_provider_name, match_policy,
                                  policy_version, http_status, bt_call>>
              ELSE /\ bt_call' =
                         IF sel = <<>> THEN bt_call
                         ELSE Append(bt_call,
                                     [op |-> "get_budget_pct", limits_set |-> FALSE,
                                      kv |-> KvOk, raised |-> FALSE,
                                      pct |-> get_budget_pct(sel[1].budget_controls,
                                                  mget(kv_store,
                                                       or_unknown(request.x_tenant_id),
                                                       or_unknown(request.x_user_id),
                                                       now, now, now, KvOk))])
                   /\ RouteDecision(classification, risk,
                          IF sel = <<>> THEN float_zero
                          ELSE get_budget_pct(sel[1].budget_controls,
                                   mget(kv_store, or_unknown(request.x_tenant_id),
                                        or_unknown(request.x_user_id), now, now, now,
                                        KvOk)))
    /\ UNCHANGED <<config_vars, risk, classification, served_idx, calls, outcome, error,
                   audit_tasks, audit_log>>

\* route, lines 89-153: the MGET of the store has ended as kv says and
\* get_budget_pct returns, then match; an exception that get_budget_pct lets out
\* leaves route and chat_completions, and the server answers 500
RouteBudgetRead(kv) ==
    /\ pc = "budget_read"
    /\ LET controls == selected_policy[1].budget_controls
           read == mget(kv_store, or_unknown(request.x_tenant_id),
                        or_unknown(request.x_user_id), now, now, now, kv)
       IN  IF get_budget_pct_raises(controls, read)
           THEN /\ bt_call' = Append(bt_call,
                                     [op |-> "get_budget_pct", limits_set |-> TRUE,
                                      kv |-> kv, raised |-> TRUE, pct |-> float_zero])
                /\ http_status' = 500
                /\ pc' = "done"
                /\ UNCHANGED <<budget_pct, matched, models_to_try, actual_model,
                               actual_provider_name, match_policy, policy_version, idx,
                               fallback_used>>
           ELSE /\ bt_call' = Append(bt_call,
                                     [op |-> "get_budget_pct", limits_set |-> TRUE,
                                      kv |-> kv, raised |-> FALSE,
                                      pct |-> get_budget_pct(controls, read)])
                /\ RouteDecision(classification, risk, bt_call'[Len(bt_call')].pct)
    /\ UNCHANGED <<config_vars, risk, classification, selected_policy, served_idx, calls,
                   outcome, error, audit_tasks, audit_log>>

\* the store answers the read
RouteBudgetMatch == RouteBudgetRead(KvOk)

\* the read of the store fails: get_budget_pct logs it and returns 0.0
RouteBudgetReadFails ==
    \E kv \in KvFailures : ~kv.applied /\ RouteBudgetRead(kv)

\* route, lines 155-159: no adapter for the candidate's provider
AttemptSkip ==
    /\ pc = "dispatch"
    /\ idx <= Len(models_to_try)
    /\ models_to_try[idx].provider \notin _providers
    /\ idx' = idx + 1
    /\ UNCHANGED <<config_vars, bt_call, policy_reads, risk, classification, budget_pct, pc, matched,
                   models_to_try, fallback_used, actual_model, actual_provider_name,
                   served_idx, calls, outcome, error, audit_tasks, audit_log, http_status>>

\* the pre-analysis of the request, of which route reads the token estimate
pre_analysis == [estimated_tokens |-> 10]

\* response.usage of a non-streaming response: absent, or the provider's counts
Usages == {<<>>, <<[prompt_tokens |-> 12, completion_tokens |-> 7]>>}

\* route, lines 171-181 and 209-221: the record_spend call of a served request,
\* with the arguments of estimate_cost_usd and the amount it gives
spend_call(req, usage, model_id, tier) ==
    LET prompt_tokens == IF ~req.stream /\ usage # <<>> THEN usage[1].prompt_tokens
                         ELSE pre_analysis.estimated_tokens
        completion_tokens == IF ~req.stream /\ usage # <<>> THEN usage[1].completion_tokens
                             ELSE 0
    IN  [tenant_id |-> or_unknown(req.x_tenant_id),
         user_id |-> or_unknown(req.x_user_id),
         model_id |-> model_id,
         prompt_tokens |-> prompt_tokens,
         completion_tokens |-> completion_tokens,
         tier |-> tier,
         amount_usd |-> estimate_cost_usd(_prices, model_id, prompt_tokens,
                                          completion_tokens, tier)]

\* route, lines 177-203 and 217-246: record_spend is called; for an amount that is
\* not positive it returns at once (budget_tracker.py, line 149) and route builds
\* the outcome and returns, otherwise the coroutine waits for the pipeline
RecordSpendCalled(call, loc) ==
    /\ spend_calls' = Append(spend_calls, call)
    /\ served_idx' = idx
    /\ IF call.amount_usd <= 0
       THEN /\ bt_call' = Append(bt_call, [op |-> "record_spend", kv |-> KvOk,
                                           raised |-> FALSE])
            /\ outcome' = <<outcome_with_policy(RoutingOutcome(loc, matched, risk), matched,
                                                policy_version)>>
            /\ pc' = "returned"
       ELSE /\ pc' = "recording"
            /\ UNCHANGED <<outcome, bt_call>>

\* route, lines 161-181, streaming: the generator object is created without any
\* upstream I/O, then the spend is estimated and record_spend called
AttemptStream ==
    /\ pc = "dispatch"
    /\ idx <= Len(models_to_try)
    /\ models_to_try[idx].provider \in _providers
    /\ request.stream
    /\ LET loc == attempt_locals(idx, models_to_try[idx], fallback_used,
                                 actual_model, actual_provider_name)
       IN  /\ fallback_used' = loc.fallback_used
           /\ actual_model' = loc.actual_model
           /\ actual_provider_name' = loc.actual_provider_name
           /\ RecordSpendCalled(spend_call(request, <<>>, loc.actual_model,
                                           matched.rule.model_tier), loc)
    /\ calls' = Append(calls, models_to_try[idx])
    /\ UNCHANGED <<engine_vars, kv_store, policy_reads, risk, classification, budget_pct,
                   matched, models_to_try, idx, error, audit_tasks, audit_log, http_status>>

\* route, lines 161-167 and 207: the bookkeeping of the attempt, then the
\* coroutine waits for provider.chat_completion
AttemptCall ==
    /\ pc = "dispatch"
    /\ idx <= Len(models_to_try)
    /\ models_to_try[idx].provider \in _providers
    /\ ~request.stream
    /\ LET loc == attempt_locals(idx, models_to_try[idx], fallback_used,
                                 actual_model, actual_provider_name)
       IN  /\ fallback_used' = loc.fallback_used
           /\ actual_model' = loc.actual_model
           /\ actual_provider_name' = loc.actual_provider_name
    /\ calls' = Append(calls, models_to_try[idx])
    /\ pc' = "calling"
    /\ UNCHANGED <<config_vars, bt_call, policy_reads, risk, classification, budget_pct, matched,
                   models_to_try, idx, served_idx, outcome, error, audit_tasks, audit_log,
                   http_status>>

\* the locals of route that the outcome is built from
route_locals ==
    [fallback_used |-> fallback_used, actual_model |-> actual_model,
     actual_provider_name |-> actual_provider_name]

\* route, lines 207-221: chat_completion returns a response; the spend is
\* estimated from its usage and record_spend called
AttemptOk ==
    /\ pc = "calling"
    /\ \E usage \in Usages :
          RecordSpendCalled(spend_call(request, usage, actual_model,
                                       matched.rule.model_tier), route_locals)
    /\ UNCHANGED <<engine_vars, kv_store, policy_reads, risk, classification, budget_pct,
                   matched, models_to_try, idx, fallback_used, actual_model,
                   actual_provider_name, calls, error, audit_tasks, audit_log, http_status>>

\* The failed attempt whose spend is recorded all the same.
AttemptFail_charged ==
    /\ pc = "calling"
    /\ spend_calls' = Append(spend_calls,
           spend_call(request, <<>>, actual_model, matched.rule.model_tier))
    /\ idx' = idx + 1
    /\ pc' = "dispatch"
    /\ UNCHANGED <<engine_vars, bt_call, kv_store, policy_reads, risk, classification, budget_pct,
                   matched, models_to_try, fallback_used, actual_model,
                   actual_provider_name, served_idx, calls, outcome, error, audit_tasks,
                   audit_log, http_status>>

\* The failed attempt after which the loop passes over the next candidate.
AttemptFail_passing_over ==
    /\ pc = "calling"
    /\ idx' = IF idx < Len(models_to_try) THEN idx + 2 ELSE idx + 1
    /\ pc' = "dispatch"
    /\ UNCHANGED <<config_vars, bt_call, policy_reads, risk, classification, budget_pct, matched,
                   models_to_try, fallback_used, actual_model, actual_provider_name,
                   served_idx, calls, outcome, error, audit_tasks, audit_log, http_status>>

\* route, lines 207 and 248-257: chat_completion raises ProviderError, and the
\* loop goes on to the next candidate
AttemptFail ==
    /\ pc = "calling"
    /\ idx' = idx + 1
    /\ pc' = "dispatch"
    /\ UNCHANGED <<config_vars, bt_call, policy_reads, risk, classification, budget_pct, matched,
                   models_to_try, fallback_used, actual_model, actual_provider_name,
                   served_idx, calls, outcome, error, audit_tasks, audit_log, http_status>>

\* record_spend, lines 152-163, called from route: the pipeline has ended as kv
\* says, and record_spend returns; an exception that it lets out leaves route
\* and chat_completions, and the server answers 500
RecordSpendExecuted(kv) ==
    /\ pc = "recording"
    /\ LET call == spend_calls[Len(spend_calls)]
           out == record_spend(kv_store, call.tenant_id, call.user_id,
                               call.amount_usd, now, now, now, now, kv)
       IN  /\ kv_store' = out.store
           /\ bt_call' = Append(bt_call, [op |-> "record_spend", kv |-> kv,
                                          raised |-> out.raised])
           /\ IF out.raised
              THEN http_status' = 500 /\ pc' = "done"
              ELSE pc' = "recorded" /\ UNCHANGED http_status
    /\ UNCHANGED <<engine_vars, spend_calls, policy_reads, risk, classification, budget_pct,
                   matched, models_to_try, idx, fallback_used, actual_model,
                   actual_provider_name, served_idx, calls, outcome, error, audit_tasks,
                   audit_log>>

\* the store runs the pipeline
RecordSpendPipeline == RecordSpendExecuted(KvOk)

\* the pipeline fails, before the store applies it or with its reply lost:
\* record_spend logs it
RecordSpendPipelineFails == \E kv \in KvFailures : RecordSpendExecuted(kv)

\* route, lines 182-204 and 222-246: record_spend has returned; the outcome is
\* built and route returns
RouteReturn ==
    /\ pc = "recorded"
    /\ outcome' = <<outcome_with_policy(RoutingOutcome(route_locals, matched, risk), matched,
                                     policy_version)>>
    /\ pc' = "returned"
    /\ UNCHANGED <<config_vars, bt_call, policy_reads, risk, classification, budget_pct, matched,
                   models_to_try, idx, fallback_used, actual_model, actual_provider_name,
                   served_idx, calls, error, audit_tasks, audit_log, http_status>>

\* The terminal error with governance_blocked left at its default.
RouteRaise_default ==
    /\ pc = "dispatch"
    /\ idx > Len(models_to_try)
    /\ error' = <<RoutingError(FALSE)>>
    /\ pc' = "raised"
    /\ UNCHANGED <<config_vars, bt_call, policy_reads, risk, classification, budget_pct, matched,
                   models_to_try, idx, fallback_used, actual_model,
                   actual_provider_name, served_idx, calls, outcome, audit_tasks,
                   audit_log, http_status>>

\* route, lines 259-278: every candidate failed or was skipped
RouteRaise ==
    /\ pc = "dispatch"
    /\ idx > Len(models_to_try)
    /\ error' = <<RoutingError(risk.direct_commercial_forbidden)>>
    /\ pc' = "raised"
    /\ UNCHANGED <<config_vars, bt_call, policy_reads, risk, classification, budget_pct, matched,
                   models_to_try, idx, fallback_used, actual_model,
                   actual_provider_name, served_idx, calls, outcome, audit_tasks,
                   audit_log, http_status>>

(***************************************************************************)
(* api/v1/chat.py, main.py                                                 *)
(***************************************************************************)
\* chat_completions, lines 87-125: route returned; the audit record is built and
\* its write scheduled as a background task, then the response is returned
ChatRespond ==
    /\ pc = "returned"
    /\ audit_tasks' = Append(audit_tasks, build_record(outcome[1]))
    /\ http_status' = 200
    /\ pc' = "responded"
    /\ UNCHANGED <<config_vars, bt_call, policy_reads, risk, classification, budget_pct, matched,
                   models_to_try, idx, fallback_used, actual_model,
                   actual_provider_name, served_idx, calls, outcome, error, audit_log>>

\* the background task runs AuditLogger.log(record) after the response
\* (audit_log.py, lines 44-53): the line is built, the lock, which no other call
\* holds, is taken without a suspension, and the line is appended to the
\* file; an OSError of the open or of the write ends in the except clause
RunAuditTask ==
    /\ pc = "responded"
    /\ audit_tasks # <<>>
    /\ _lock = <<>>
    /\ LET record == Head(audit_tasks)
       IN  IF json_dumps_raises(record)
           THEN audit_file' = audit_file
           ELSE \E out \in file_write_outcomes(audit_file, json_dumps(record) \o <<"\n">>) :
                    audit_file' = out.content
    /\ audit_log' = Append(audit_log, Head(audit_tasks))
    /\ audit_tasks' = Tail(audit_tasks)
    /\ pc' = "done"
    /\ UNCHANGED <<_policies, _tenant_policies, _base_policy, _virtual, _prices, _providers,
                   request, match_calls, assess_call, log_tasks, _lock, spend_calls,
                   policies_dir, loaded_dir, kv_store, now, bt_call, bt_pending,
                   classify_call, upstream, body, stream_phase,
                   policy_reads, risk, classification, budget_pct, matched,
                   models_to_try, idx, fallback_used, actual_model,
                   actual_provider_name, served_idx, calls, outcome, error, http_status>>

\* chat_completions line 87 propagates the RoutingError of route; the handler
\* registered in main.py line 89 turns it into the response
ExceptionHandler ==
    /\ pc = "raised"
    /\ http_status' = routing_brain_exception_handler(error[1])
    /\ pc' = "done"
    /\ UNCHANGED <<config_vars, bt_call, policy_reads, risk, classification, budget_pct, matched,
                   models_to_try, idx, fallback_used, actual_model,
                   actual_provider_name, served_idx, calls, outcome, error,
                   audit_tasks, audit_log>>

Next ==
    \/ RouteClassify
    \/ RouteResolvePolicy
    \/ RouteBudgetMatch
    \/ AttemptSkip
    \/ AttemptStream
    \/ AttemptCall
    \/ AttemptOk
    \/ AttemptFail
    \/ RecordSpendPipeline
    \/ RouteReturn
    \/ RouteRaise
    \/ ChatRespond
    \/ RunAuditTask
    \/ ExceptionHandler

Spec == Init /\ [][Next]_vars

TypeOK ==
    /\ pc \in {"received", "classified", "budget_read", "dispatch", "calling", "recording",
              "recorded", "returned", "raised", "responded", "done"}
    /\ idx \in 0..(Len(models_to_try) + 1)
    /\ http_status \in {0, 200, 451, 500, 502}

(***************************************************************************)
(* routing/policy.py: loading and reloading the policy files.              *)
(***************************************************************************)
AllDepartments == {"rd", "general"}
AllTenants == {"t1", "t2"}

\* A *.yaml file: its stem, whether it parses and validates, the policy it holds.
PolicyFile(stem, loads, policy) == [stem |-> stem, loads |-> loads, policy |-> policy]

\* __init__, lines 20-22: the indexes before any file is loaded
EmptyIndexes ==
    [_policies |-> [d \in AllDepartments |-> <<>>],
     _tenant_policies |-> [k \in AllTenants \X AllDepartments |-> <<>>],
     _base_policy |-> <<>>]

Indexes ==
    [_policies |-> _policies, _tenant_policies |-> _tenant_policies,
     _base_policy |-> _base_policy]

\* _load_file, lines 62-68, for a file that parsed
_load_file(ix, file) ==
    LET policy == file.policy
        ix1 == IF policy.tenant_id # ""
               THEN [ix EXCEPT !._tenant_policies[<<policy.tenant_id, policy.department>>] =
                                    <<policy>>]
               ELSE [ix EXCEPT !._policies[policy.department] = <<policy>>]
    IN  IF file.stem = "base" /\ policy.tenant_id = ""
        THEN [ix1 EXCEPT !._base_policy = <<policy>>]
        ELSE ix1

\* The load that ends at the first file that raises.
RECURSIVE load_all_aborting(_, _)
load_all_aborting(ix, dir) ==
    IF dir = <<>> THEN ix
    ELSE IF Head(dir).loads THEN load_all_aborting(_load_file(ix, Head(dir)), Tail(dir))
    ELSE ix

\* load_all: every file in glob order; a file that raises is logged and skipped
RECURSIVE load_all(_, _)
load_all(ix, dir) ==
    IF dir = <<>> THEN ix
    ELSE load_all(IF Head(dir).loads THEN _load_file(ix, Head(dir)) ELSE ix, Tail(dir))

\* __init__: empty indexes, then load_all
PolicyEngine__init__(dir) == load_all(EmptyIndexes, dir)

\* The reload that clears the indexes and leaves the loading to a later step.
reload_cleared(ix, dir) ==
    [_policies |-> [d \in DOMAIN ix._policies |-> <<>>],
     _tenant_policies |-> [k \in DOMAIN ix._tenant_policies |-> <<>>],
     _base_policy |-> <<>>]

\* The reload that loads the files over the indexes it finds.
reload_unclear(ix, dir) == load_all(ix, dir)

\* reload, lines 79-82: clear both dictionaries and the base policy, then load_all
reload(ix, dir) ==
    load_all([_policies |-> [d \in DOMAIN ix._policies |-> <<>>],
              _tenant_policies |-> [k \in DOMAIN ix._tenant_policies |-> <<>>],
              _base_policy |-> <<>>],
             dir)

\* The policy files explored.
F_rd_v1 ==
    PolicyFile("rd", TRUE,
        DepartmentPolicy("", "rd",
            <<RoutingRule("general_balanced", "", "", M_claude, "anthropic", <<M_llama>>, "balanced"),
              RoutingRule("oss_code_cheap", "code_generation", "", M_llama, "ollama", <<>>, "fast_cheap")>>,
            "", <<>>))

F_rd_v2 ==
    PolicyFile("rd_next", TRUE,
        [DepartmentPolicy("", "rd",
            <<RoutingRule("oss_local", "", "", M_llama, "ollama", <<M_mistral>>, "local")>>,
            "balanced", <<>>)
         EXCEPT !.version = "2.0", !.budget_controls.daily_limit_usd_per_tenant = 100])

F_t1_rd ==
    PolicyFile("t1_rd", TRUE,
        [DepartmentPolicy("t1", "rd",
            <<RoutingRule("cheap", "", "", M_gpt, "openai", <<>>, "fast_cheap")>>,
            "", <<>>)
         EXCEPT !.budget_controls.daily_limit_usd_per_tenant = 0])

F_t2_rd ==
    PolicyFile("t2_rd", TRUE,
        DepartmentPolicy("t2", "rd",
            <<RoutingRule("oss_local", "", "", M_llama, "ollama", <<M_mistral>>, "local")>>,
            "", <<>>))

F_base ==
    PolicyFile("base", TRUE,
        DepartmentPolicy("", "general", <<>>, "",
            <<RoutingRule("default", "", "", M_claude, "anthropic", <<M_llama>>, "balanced")>>))

F_broken == PolicyFile("rd_draft", FALSE, F_rd_v2.policy)

\* The contents of the policies directory explored, each in its glob order.
Directories ==
    { <<>>, <<F_rd_v1>>, <<F_rd_v2>>, <<F_rd_v1, F_t1_rd>>, <<F_base>>,
      <<F_t1_rd, F_base, F_rd_v2>>, <<F_rd_v1, F_rd_v2>>, <<F_broken, F_t2_rd, F_rd_v1>>,
      <<F_rd_v1, F_broken>>, <<F_t1_rd, F_broken, F_base>> }

(***************************************************************************)
(* A request in flight while the policy files are edited and reloaded.     *)
(* The steps of route are the stretches of code between two suspensions of *)
(* the coroutine; reload has no await and runs as one step.                *)
(***************************************************************************)
ReloadClassifications ==
    { [task_type |-> "code_generation", complexity |-> "simple", department |-> "rd"],
      [task_type |-> "general", complexity |-> "simple", department |-> "general"] }

\* The spend already recorded when the request arrives.
SpendStores ==
    { EmptyStore,
      record_spend(record_spend(EmptyStore, "unknown", "u1", 17, 0, 0, 0, 0, KvOk).store,
                   "t1", "u1", 21, 0, 0, 0, 0, KvOk).store }

InitReload ==
    /\ policies_dir \in Directories
    /\ loaded_dir = policies_dir
    /\ _policies = PolicyEngine__init__(policies_dir)._policies
    /\ _tenant_policies = PolicyEngine__init__(policies_dir)._tenant_policies
    /\ _base_policy = PolicyEngine__init__(policies_dir)._base_policy
    /\ _virtual = <<VirtualModelRegistry(<<>>)>>
    /\ _prices = _load_prices(<<>>)
    /\ _providers = {"ollama", "anthropic", "openai"}
    /\ request \in [stream : {FALSE}, x_tenant_id : {"", "t1"}, x_user_id : {"u1"}]
    /\ kv_store \in SpendStores
    /\ risk = RiskAssessment("low")
    /\ classification = [task_type |-> "general", complexity |-> "simple", department |-> "rd"]
    /\ budget_pct = float_zero
    /\ pc = "received"
    /\ matched = NoMatch
    /\ models_to_try = <<>>
    /\ idx = 0
    /\ fallback_used = FALSE
    /\ actual_model = <<>>
    /\ actual_provider_name = ""
    /\ served_idx = 0
    /\ calls = <<>>
    /\ outcome = <<>>
    /\ error = <<>>
    /\ audit_tasks = <<>>
    /\ audit_log = <<>>
    /\ http_status = 0
    /\ selected_policy = <<>>
    /\ match_policy = <<>>
    /\ policy_version = ""
    /\ now = 0
    /\ bt_call = <<>>
    /\ bt_pending = <<>>
    /\ NoLogs
    /\ classify_call = <<>>
    /\ upstream = <<>>
    /\ body = <<>>
    /\ stream_phase = "unopened"

request_vars == <<risk, classification, budget_pct, pc, matched, models_to_try, idx,
                  fallback_used, actual_model, actual_provider_name, policy_reads>>

\* an operator changes the files of the policies directory
EditPoliciesDir ==
    /\ \E d \in Directories : d # policies_dir /\ policies_dir' = d
    /\ UNCHANGED <<_policies, _tenant_policies, _base_policy, _virtual, _prices, _providers, request, log_vars,
                   loaded_dir, kv_store, now, bt_call, bt_pending, classify_call, upstream, body,
                   stream_phase, request_vars, served_idx, calls, outcome, error,
                   audit_tasks, audit_log, http_status>>

\* api/internal/routing.py reload_policies, lines 21-25: PolicyEngine.reload()
ReloadPolicies ==
    /\ LET ix == reload(Indexes, policies_dir)
       IN  /\ _policies' = ix._policies
           /\ _tenant_policies' = ix._tenant_policies
           /\ _base_policy' = ix._base_policy
    /\ loaded_dir' = policies_dir
    /\ UNCHANGED <<policies_dir, _virtual, _prices, _providers, request, log_vars, kv_store, now, bt_call, bt_pending,
                   classify_call, upstream, body, stream_phase, request_vars, served_idx,
                   calls, outcome, error, audit_tasks, audit_log, http_status>>

\* the classifier returns one of the classifications explored with the policy files
RouteClassifyReload == RouteClassified(ReloadClassifications)

NextReload ==
    \/ EditPoliciesDir
    \/ ReloadPolicies
    \/ RouteClassifyReload
    \/ RouteResolvePolicy
    \/ RouteBudgetMatch
    \/ RouteBudgetReadFails

SpecReload == InitReload /\ [][NextReload]_vars

(***************************************************************************)
(* The calls of RoutingBrain.classify explored.                            *)
(***************************************************************************)
\* The request-side variables before route has run.
RequestStart ==
    /\ risk = RiskAssessment("low")
    /\ classification = [task_type |-> "general", complexity |-> "simple", department |-> "rd"]
    /\ budget_pct = float_zero
    /\ pc = "received"
    /\ matched = NoMatch
    /\ models_to_try = <<>>
    /\ idx = 0
    /\ fallback_used = FALSE
    /\ actual_model = <<>>
    /\ actual_provider_name = ""
    /\ served_idx = 0
    /\ calls = <<>>
    /\ outcome = <<>>
    /\ error = <<>>
    /\ audit_tasks = <<>>
    /\ audit_log = <<>>
    /\ http_status = 0
    /\ selected_policy = <<>>
    /\ match_policy = <<>>
    /\ policy_version = ""

\* A deployment without policy files.
NoPolicyFiles ==
    /\ policies_dir = <<>>
    /\ loaded_dir = <<>>
    /\ _policies = EmptyIndexes._policies
    /\ _tenant_policies = EmptyIndexes._tenant_policies
    /\ _base_policy = <<>>
    /\ _virtual = <<VirtualModelRegistry(<<>>)>>
    /\ _prices = _load_prices(<<>>)
    /\ _providers = {"ollama", "anthropic", "openai"}

PreAnalyses ==
    [heuristic_task_type : {"", "debugging"}, heuristic_complexity : {"", "complex"},
     department_hint : {"", "finance", "legal"}]

\* The JSON objects that the classifier model answers with ("": key absent).
ClassifierData ==
    [task_type : {"", "debugging", "poetry"}, complexity : {"", "complex"},
     department : {"rd", "legal"}, others_valid : BOOLEAN,
     confidence_kind : {"number"}, confidence : {-10, 30, 59, 60, 90, 150}]
    \cup
    [task_type : {"", "debugging", "poetry"}, complexity : {"", "complex"},
     department : {"rd", "legal"}, others_valid : BOOLEAN,
     confidence_kind : {"missing", "text"}, confidence : {0}]

NoData ==
    [task_type |-> "", complexity |-> "", department |-> "", others_valid |-> TRUE,
     confidence_kind |-> "missing", confidence |-> 0]

ClassifierReplies ==
    [kind : {"timeout", "error", "no_content", "bad_json"}, data : {NoData}]
    \cup [kind : {"json"}, data : ClassifierData]

\* the system prompt: already cached, or the state of the file at its path
PromptStates == {"cached", "missing", "readable", "unreadable"}

InitClassify ==
    /\ RequestStart
    /\ NoPolicyFiles
    /\ request = [stream |-> FALSE, x_tenant_id |-> "", x_user_id |-> "u1"]
    /\ kv_store = EmptyStore
    /\ now = 0
    /\ bt_call = <<>>
    /\ bt_pending = <<>>
    /\ NoLogs
    /\ classify_call = <<>>
    /\ upstream = <<>>
    /\ body = <<>>
    /\ stream_phase = "unopened"

\* route, lines 77-79: await self.routing_brain.classify(...)
Classify ==
    /\ classify_call = <<>>
    /\ \E api_key \in BOOLEAN, prompt \in PromptStates, pre \in PreAnalyses,
          up \in ClassifierReplies :
          classify_call' = <<[api_key |-> api_key, prompt |-> prompt, pre_analysis |-> pre,
                              up |-> up, out |-> classify(api_key, prompt, pre, up)]>>
    /\ UNCHANGED <<_policies, _tenant_policies, _base_policy, _virtual, _prices, _providers, request, log_vars,
                   policies_dir, loaded_dir, kv_store, now, bt_call, bt_pending, upstream, body,
                   stream_phase, policy_reads, risk, classification, budget_pct, pc,
                   matched, models_to_try, idx, fallback_used, actual_model,
                   actual_provider_name, served_idx, calls, outcome, error, audit_tasks,
                   audit_log, http_status>>

NextClassify == Classify

SpecClassify == InitClassify /\ [][NextClassify]_vars

(***************************************************************************)
(* The BudgetTracker calls explored: record_spend calls of several         *)
(* requests in flight at once, and the clock passing midnight and the      *)
(* expiry of the keys of the day before.                                   *)
(***************************************************************************)
MaxSpend == 2

BudgetTenants == {"t1"}
BudgetUsers == {"u1", "u2"}
Amounts == {-1, 0, 1}

\* the requests whose record_spend calls can be in flight at once
SpendingRequests == {"r1", "r2"}

\* the instants at which something happens: half a second before the end of day
\* 0, midnight, the expiry of the keys written in that last half second
Instants == <<86399500, 86400000, 86459500>>

LimitControls ==
    [daily_limit_usd_per_user : {0, 2}, daily_limit_usd_per_tenant : {0, 1, 4}]

RECURSIVE sum_over(_, _)
sum_over(f, keys) ==
    IF keys = {} THEN 0
    ELSE LET k == CHOOSE x \in keys : TRUE IN f[k] + sum_over(f, keys \ {k})

\* the spend recorded for the tenants and not expired, and the spend in flight
live_spend(store, t) ==
    sum_over([k \in DOMAIN store |-> kv_get(store, k, t)],
             { k \in DOMAIN store : \E tenant_id \in BudgetTenants, i \in 1..Len(Instants) :
                                       k = _tenant_key(tenant_id, Instants[i]) })

pending_spend(pending) ==
    sum_over([r \in DOMAIN pending |-> max2(pending[r].amount_usd, 0)], DOMAIN pending)

InitBudget ==
    /\ RequestStart
    /\ NoPolicyFiles
    /\ request = [stream |-> FALSE, x_tenant_id |-> "t1", x_user_id |-> "u1"]
    /\ kv_store = EmptyStore
    /\ now = Instants[1]
    /\ bt_call = <<>>
    /\ bt_pending = <<>>
    /\ NoLogs
    /\ classify_call = <<>>
    /\ upstream = <<>>
    /\ body = <<>>
    /\ stream_phase = "unopened"

budget_unchanged ==
    UNCHANGED <<_policies, _tenant_policies, _base_policy, _virtual, _prices, _providers, request, log_vars,
                policies_dir, loaded_dir, classify_call, upstream, body, stream_phase,
                policy_reads, risk, classification, budget_pct, pc, matched,
                models_to_try, idx, fallback_used, actual_model, actual_provider_name,
                served_idx, calls, outcome, error, audit_tasks, audit_log, http_status>>

\* the instants the clock can show at three successive reads, the first at t
ClockReads(t) ==
    { reads \in [1..3 -> {Instants[i] : i \in 1..Len(Instants)}] :
        reads[1] = t /\ reads[1] <= reads[2] /\ reads[2] <= reads[3] }

\* record_spend, lines 149-155: a call with amount <= 0 goes to its return; else
\* the two keys and the TTL are computed, each from its own read of the clock,
\* which can move on between the reads, then the call waits for its pipeline
RecordSpendCalled_at(clock_reads) ==
    /\ \E r \in SpendingRequests \ DOMAIN bt_pending, tenant_id \in BudgetTenants,
          user_id \in BudgetUsers, amount_usd \in Amounts, reads \in clock_reads :
          /\ live_spend(kv_store, now) + pending_spend(bt_pending) + max2(amount_usd, 0)
                <= MaxSpend
          /\ amount_usd <= 0 => reads[3] = now
          /\ bt_pending' =
                [x \in (DOMAIN bt_pending) \cup {r} |->
                    IF x = r THEN [tenant_id |-> tenant_id, user_id |-> user_id,
                                   amount_usd |-> amount_usd, t_tenant |-> reads[1],
                                   t_user |-> reads[2], t_ttl |-> reads[3]]
                    ELSE bt_pending[x]]
          /\ now' = reads[3]
    /\ UNCHANGED <<kv_store, bt_call>>
    /\ budget_unchanged

\* the call is made at any time around midnight
RecordSpendCall == RecordSpendCalled_at(ClockReads(now))

\* record_spend, lines 149-150 and 156-163: a call with amount <= 0 returns
\* without a command to the store; else the pipeline of one of the waiting
\* calls runs, or fails, and the call returns
RecordSpendReturn ==
    /\ \E r \in DOMAIN bt_pending, kv \in KvOutcomes :
          LET p == bt_pending[r]
              out == record_spend(kv_store, p.tenant_id, p.user_id, p.amount_usd,
                                  p.t_tenant, p.t_user, p.t_ttl, now, kv)
          IN  /\ p.amount_usd <= 0 => kv = KvOk
              /\ kv_store' = out.store
              /\ bt_pending' = [x \in (DOMAIN bt_pending) \ {r} |-> bt_pending[x]]
              /\ bt_call' = <<[op |-> "record_spend", kv |-> kv, raised |-> out.raised]>>
    /\ UNCHANGED now
    /\ budget_unchanged

\* the clock moves to the next instant
Tick ==
    /\ \E i \in 1..(Len(Instants) - 1) : now = Instants[i] /\ now' = Instants[i + 1]
    /\ UNCHANGED <<kv_store, bt_call, bt_pending>>
    /\ budget_unchanged

NextBudget == RecordSpendCall \/ RecordSpendReturn \/ Tick

SpecBudget == InitBudget /\ [][NextBudget]_vars

(***************************************************************************)
(* A request whose reads and writes of the store fail: the connection is   *)
(* lost or times out before the store applies the operation, or after it.  *)
(***************************************************************************)
\* A policy that sets no daily limit.
unlimited(policy) ==
    [policy EXCEPT !.budget_controls.daily_limit_usd_per_tenant = 0,
                   !.budget_controls.daily_limit_usd_per_user = 0]

FailurePolicyRules ==
    <<RoutingRule("general_balanced", "", "", M_claude, "anthropic", <<M_llama>>, "balanced"),
      RoutingRule("cheap", "", "", M_gpt, "openai", <<>>, "fast_cheap")>>

\* no policy, a policy with a daily limit for the tenant, one without limits
FailurePolicies ==
    { <<>>,
      <<DepartmentPolicy("", "rd", FailurePolicyRules, "", <<>>)>>,
      <<unlimited(DepartmentPolicy("", "rd", FailurePolicyRules, "", <<>>))>> }

InitBudgetFailures ==
    /\ RequestStart
    /\ \E p \in FailurePolicies : _policies = [d \in Departments |-> p]
    /\ _tenant_policies = [k \in Tenants \X Departments |-> <<>>]
    /\ _base_policy = <<>>
    /\ _virtual = <<VirtualModelRegistry(<<>>)>>
    /\ _prices = _load_prices(<<>>)
    /\ _providers \in AdapterSets
    /\ request \in [stream : BOOLEAN, x_tenant_id : Tenants, x_user_id : {"u1"}]
    /\ policies_dir = <<>>
    /\ loaded_dir = <<>>
    /\ kv_store \in RequestStores
    /\ now = 0
    /\ bt_call = <<>>
    /\ bt_pending = <<>>
    /\ NoLogs
    /\ classify_call = <<>>
    /\ upstream = <<>>
    /\ body = <<>>
    /\ stream_phase = "unopened"

NextBudgetFailures ==
    \/ RouteClassify
    \/ RouteResolvePolicy
    \/ RouteBudgetMatch
    \/ RouteBudgetReadFails
    \/ AttemptSkip
    \/ AttemptStream
    \/ AttemptCall
    \/ AttemptOk
    \/ AttemptFail
    \/ RecordSpendPipeline
    \/ RecordSpendPipelineFails
    \/ RouteReturn
    \/ RouteRaise
    \/ ChatRespond
    \/ RunAuditTask
    \/ ExceptionHandler

SpecBudgetFailures == InitBudgetFailures /\ [][NextBudgetFailures]_vars

(***************************************************************************)
(* The BudgetTracker calls of requests of several identities: route reads  *)
(* the budget of a request and records the spend of a served request, the  *)
(* tenant and the user taken from the request as the middleware set them   *)
(* from the X-Tenant-Id and X-User-Id headers (middleware/auth.py 52-59).  *)
(***************************************************************************)
MaxIdentityCalls == 2

HeaderTenants == {"a", "a:b"}
HeaderUsers == {"c", "b:c"}

\* the budget controls of the policy of the requests: both daily limits set
ReadControls ==
    {c \in LimitControls : c.daily_limit_usd_per_user # 0 /\ c.daily_limit_usd_per_tenant = 4}

InitIdentities ==
    /\ RequestStart
    /\ NoPolicyFiles
    /\ request \in [stream : {FALSE}, x_tenant_id : HeaderTenants, x_user_id : HeaderUsers]
    /\ kv_store = EmptyStore
    /\ now = Instants[1]
    /\ bt_call = <<>>
    /\ bt_pending = <<>>
    /\ NoLogs
    /\ classify_call = <<>>
    /\ upstream = <<>>
    /\ body = <<>>
    /\ stream_phase = "unopened"

\* the requests whose BudgetTracker calls can be in flight at once
IdentityRequests == {"r1", "r2"}

identities_unchanged ==
    UNCHANGED <<_policies, _tenant_policies, _base_policy, _virtual, _prices, _providers, call_logs,
                policies_dir, loaded_dir, classify_call, upstream, body, stream_phase,
                policy_reads, risk, classification, budget_pct, pc, matched,
                models_to_try, idx, fallback_used, actual_model, actual_provider_name,
                served_idx, calls, outcome, error, audit_tasks, audit_log, http_status,
                now>>

\* bt_pending with the call of request r added, and with it taken away
pending_with(r, call) ==
    [x \in (DOMAIN bt_pending) \cup {r} |-> IF x = r THEN call ELSE bt_pending[x]]

pending_without(r) == [x \in (DOMAIN bt_pending) \ {r} |-> bt_pending[x]]

\* route, lines 177-181 and 217-221, and record_spend, lines 149-155: record_spend
\* is called for the identity of a request; a call with a positive amount
\* computes its keys and waits for its pipeline
RouteRecordsSpend ==
    /\ Len(spend_calls) < MaxIdentityCalls
    /\ \E r \in IdentityRequests \ DOMAIN bt_pending, x_tenant_id \in HeaderTenants,
          x_user_id \in HeaderUsers, amount_usd \in {0, 1} :
          /\ request' = [stream |-> FALSE, x_tenant_id |-> x_tenant_id,
                         x_user_id |-> x_user_id]
          /\ spend_calls' = Append(spend_calls,
                                   [x_tenant_id |-> x_tenant_id, x_user_id |-> x_user_id,
                                    amount_usd |-> amount_usd, applied |-> FALSE])
          /\ bt_pending' =
                IF amount_usd <= 0 THEN bt_pending
                ELSE pending_with(r, [op |-> "record_spend", call |-> Len(spend_calls) + 1,
                                      tenant_id |-> or_unknown(x_tenant_id),
                                      user_id |-> or_unknown(x_user_id),
                                      amount_usd |-> amount_usd, t_tenant |-> now,
                                      t_user |-> now, t_ttl |-> now])
    /\ UNCHANGED <<kv_store, bt_call>>
    /\ identities_unchanged

\* record_spend, lines 156-163: the pipeline of a waiting call runs or fails,
\* and the call returns
RouteSpendExecuted ==
    /\ \E r \in DOMAIN bt_pending, kv \in KvOutcomes :
          /\ bt_pending[r].op = "record_spend"
          /\ LET p == bt_pending[r]
             IN  /\ kv_store' = record_spend(kv_store, p.tenant_id, p.user_id, p.amount_usd,
                                             p.t_tenant, p.t_user, p.t_ttl, now, kv).store
                 /\ spend_calls' = [spend_calls EXCEPT ![p.call].applied = kv.applied]
          /\ bt_pending' = pending_without(r)
    /\ UNCHANGED <<request, bt_call>>
    /\ identities_unchanged

\* route, lines 87-93, and get_budget_pct, lines 86-92: get_budget_pct is called
\* for the identity of a request; it computes its keys and waits for the MGET
RouteReadsBudget ==
    /\ \E r \in IdentityRequests \ DOMAIN bt_pending, x_tenant_id \in HeaderTenants,
          x_user_id \in HeaderUsers, controls \in ReadControls :
          /\ request' = [stream |-> FALSE, x_tenant_id |-> x_tenant_id,
                         x_user_id |-> x_user_id]
          /\ bt_pending' =
                pending_with(r, [op |-> "get_budget_pct", controls |-> controls,
                                 x_tenant_id |-> x_tenant_id, x_user_id |-> x_user_id,
                                 t_tenant |-> now, t_user |-> now])
    /\ UNCHANGED <<kv_store, bt_call, spend_calls>>
    /\ identities_unchanged

\* get_budget_pct, lines 92-106: the store serves the MGET of a waiting call from
\* what it holds then, and the call returns the percentage
RouteBudgetServed ==
    /\ \E r \in DOMAIN bt_pending :
          /\ bt_pending[r].op = "get_budget_pct"
          /\ LET p == bt_pending[r]
             IN  bt_call' =
                    <<[op |-> "get_budget_pct", controls |-> p.controls,
                       x_tenant_id |-> p.x_tenant_id, x_user_id |-> p.x_user_id,
                       applied |-> {n \in 1..Len(spend_calls) : spend_calls[n].applied},
                       pct |-> get_budget_pct(p.controls,
                                   mget(kv_store, or_unknown(p.x_tenant_id),
                                        or_unknown(p.x_user_id), p.t_tenant, p.t_user, now,
                                        KvOk))]>>
          /\ bt_pending' = pending_without(r)
    /\ UNCHANGED <<request, kv_store, spend_calls>>
    /\ identities_unchanged

NextIdentities ==
    RouteRecordsSpend \/ RouteSpendExecuted \/ RouteReadsBudget \/ RouteBudgetServed

SpecIdentities == InitIdentities /\ [][NextIdentities]_vars

(***************************************************************************)
(* Streaming requests: the response is returned, then the server iterates  *)
(* the body; the provider's generator yields chunks, ends or raises.       *)
(***************************************************************************)
MaxChunks == 2

StreamData == {"a", "b"}

StreamPolicies ==
    { <<>>,
      <<DepartmentPolicy("", "rd",
          <<RoutingRule("general_balanced", "", "", M_claude, "anthropic", <<M_llama>>,
                        "balanced")>>, "", <<>>)>> }

InitStream ==
    /\ RequestStart
    /\ \E p \in StreamPolicies : _policies = [d \in Departments |-> p]
    /\ _tenant_policies = [k \in Tenants \X Departments |-> <<>>]
    /\ _base_policy = <<>>
    /\ _virtual = <<VirtualModelRegistry(<<>>)>>
    /\ _prices = _load_prices(<<>>)
    /\ _providers \in AdapterSets
    /\ request \in [stream : {TRUE}, x_tenant_id : Tenants, x_user_id : {"u1"}]
    /\ policies_dir = <<>>
    /\ loaded_dir = <<>>
    /\ kv_store = EmptyStore
    /\ now = 0
    /\ bt_call = <<>>
    /\ bt_pending = <<>>
    /\ NoLogs
    /\ classify_call = <<>>
    /\ upstream = <<>>
    /\ body = <<>>
    /\ stream_phase = "unopened"

stream_unchanged_but_tasks ==
    UNCHANGED <<_policies, _tenant_policies, _base_policy, _virtual, _prices, _providers, request, log_vars,
                policies_dir, loaded_dir, kv_store, now, bt_call, bt_pending, classify_call,
                policy_reads, risk, classification, budget_pct, pc, matched,
                models_to_try, idx, fallback_used, actual_model, actual_provider_name,
                served_idx, calls, outcome, error, audit_log, http_status>>

stream_unchanged == stream_unchanged_but_tasks /\ UNCHANGED audit_tasks

\* _prepend_routing_event, lines 67-68: the first element of the body
StreamEvent ==
    /\ pc = "responded"
    /\ request.stream
    /\ stream_phase = "unopened"
    /\ stream_phase' = "open"
    /\ body' = _prepend_routing_event(outcome[1], upstream)
    /\ UNCHANGED upstream
    /\ stream_unchanged

\* _prepend_routing_event, lines 69-70: the provider's generator yields a chunk
StreamChunk ==
    /\ stream_phase = "open"
    /\ Len(upstream) < MaxChunks
    /\ \E data \in StreamData :
          /\ upstream' = Append(upstream, _sse_line(data))
          /\ body' = _prepend_routing_event(outcome[1], upstream')
    /\ UNCHANGED stream_phase
    /\ stream_unchanged

\* the provider's generator is exhausted
StreamEnd ==
    /\ stream_phase = "open"
    /\ stream_phase' = "closed"
    /\ UNCHANGED <<upstream, body>>
    /\ stream_unchanged

\* the provider's generator raises ProviderError, before or after its first
\* chunk: the exception leaves the body iterator of lines 98-100, the server
\* ends the response there, and the background tasks of the response, which
\* run after a body that was sent to its end, are dropped
StreamFail ==
    /\ stream_phase = "open"
    /\ stream_phase' = "failed"
    /\ audit_tasks' = <<>>
    /\ UNCHANGED <<upstream, body>>
    /\ stream_unchanged_but_tasks

\* the background task of a response whose body has been sent
RunAuditTaskAfterStream == stream_phase = "closed" /\ RunAuditTask

NextStream ==
    \/ RouteClassify
    \/ RouteResolvePolicy
    \/ RouteBudgetMatch
    \/ AttemptSkip
    \/ AttemptStream
    \/ RecordSpendPipeline
    \/ RecordSpendPipelineFails
    \/ RouteReturn
    \/ RouteRaise
    \/ ChatRespond
    \/ ExceptionHandler
    \/ StreamEvent
    \/ StreamChunk
    \/ StreamEnd
    \/ StreamFail
    \/ RunAuditTaskAfterStream

SpecStream == InitStream /\ [][NextStream]_vars

\* The same steps, none of them left undone for ever while it can be taken.
SpecStreamLive == InitStream /\ [][NextStream]_vars /\ WF_vars(NextStream)

(***************************************************************************)
(* Calls of PolicyEngine.match on loaded policies and a virtual registry.  *)
(***************************************************************************)
MaxMatchCalls == 2

F_rd_virtual ==
    PolicyFile("rd", TRUE,
        DepartmentPolicy("", "rd",
            <<RoutingRule("oss_balanced", "", "", M_rb_oss, "", <<M_claude>>, "balanced"),
              RoutingRule("cheap", "", "", M_gpt, "openai", <<>>, "fast_cheap")>>,
            "", <<>>))

\* A policy file whose first rule has a tier string that names no tier
\* (RoutingRule.model_tier is a str that nothing validates).
F_rd_odd(rest) ==
    PolicyFile("rd", TRUE,
        DepartmentPolicy("", "rd",
            <<RoutingRule("odd", "", "", M_gpt, "openai", <<>>, "premium")>> \o rest,
            "", <<>>))

MatchDirectories ==
    { <<F_rd_v1>>, <<F_rd_virtual>>, <<F_t1_rd, F_base, F_rd_v2>>,
      <<F_rd_odd(<<>>)>>,
      <<F_rd_odd(<<RoutingRule("cheap", "", "", M_gpt, "openai", <<>>, "fast_cheap")>>)>> }

\* models.yaml: no file, rb://oss on the local runtime, rb://oss on a compliant cloud
MatchModelsYaml ==
    { <<>>,
      <<[virtual_models |-> [id \in {M_rb_oss} |-> [model |-> M_llama, provider |-> "ollama"]],
         models |-> <<>>]>>,
      <<[virtual_models |-> [id \in {M_rb_oss} |-> [model |-> M_claude, provider |-> "bedrock"]],
         models |-> <<>>]>> }

InitMatch ==
    /\ RequestStart
    /\ policies_dir \in MatchDirectories
    /\ loaded_dir = policies_dir
    /\ _policies = PolicyEngine__init__(policies_dir)._policies
    /\ _tenant_policies = PolicyEngine__init__(policies_dir)._tenant_policies
    /\ _base_policy = PolicyEngine__init__(policies_dir)._base_policy
    /\ \E file \in MatchModelsYaml :
          /\ _virtual = <<VirtualModelRegistry(file)>>
          /\ _prices = _load_prices(file)
    /\ _providers = {"ollama", "anthropic", "openai"}
    /\ request \in [stream : {FALSE}, x_tenant_id : {"", "t1"}, x_user_id : {"u1"}]
    /\ kv_store = EmptyStore
    /\ now = 0
    /\ bt_call = <<>>
    /\ bt_pending = <<>>
    /\ NoLogs
    /\ classify_call = <<>>
    /\ upstream = <<>>
    /\ body = <<>>
    /\ stream_phase = "unopened"

\* one call of match, with its arguments and its result: the ValueError that
\* leaves the call, or the (rule, trace, constraints) returned
MatchCall ==
    /\ Len(match_calls) < MaxMatchCalls
    /\ \E level \in RiskLevels, c \in ReloadClassifications, pct \in BudgetPcts :
          match_calls' =
              Append(match_calls,
                     [classification |-> c, risk |-> RiskAssessment(level),
                      budget_pct |-> pct, tenant_id |-> request.x_tenant_id,
                      raised |-> match_raises(c, RiskAssessment(level), pct,
                                              request.x_tenant_id),
                      out |-> IF match_raises(c, RiskAssessment(level), pct,
                                              request.x_tenant_id)
                              THEN <<>>
                              ELSE <<match(c, RiskAssessment(level), pct,
                                           request.x_tenant_id)>>])
    /\ UNCHANGED <<_policies, _tenant_policies, _base_policy, _virtual, _prices, _providers, request, policies_dir, loaded_dir, kv_store, now,
                   bt_call, bt_pending, classify_call, upstream, body, stream_phase,
                   assess_call, audit_logger_vars, spend_calls,
                   policy_reads, risk, classification, budget_pct, pc, matched,
                   models_to_try, idx, fallback_used, actual_model, actual_provider_name,
                   served_idx, calls, outcome, error, audit_tasks, audit_log, http_status>>

NextMatch == MatchCall

SpecMatch == InitMatch /\ [][NextMatch]_vars

(***************************************************************************)
(* Calls of risk_analyzer.assess on the texts of requests.                 *)
(***************************************************************************)
MaxWords == 2

Vocabulary ==
    {W_ssn, W_patients, W_SOX, W_gdpr, W_contract, W_password, W_customer, W_revenue,
     W_client, W_hello}

RECURSIVE TextsOfLength(_)
TextsOfLength(n) ==
    IF n = 0 THEN {<<>>}
    ELSE { Append(t, word) : t \in TextsOfLength(n - 1), word \in Vocabulary }

Texts == UNION { TextsOfLength(n) : n \in 0..MaxWords }

InitAssess ==
    /\ RequestStart
    /\ NoPolicyFiles
    /\ request = [stream |-> FALSE, x_tenant_id |-> "", x_user_id |-> "u1"]
    /\ kv_store = EmptyStore
    /\ now = 0
    /\ bt_call = <<>>
    /\ bt_pending = <<>>
    /\ NoLogs
    /\ classify_call = <<>>
    /\ upstream = <<>>
    /\ body = <<>>
    /\ stream_phase = "unopened"

\* route, line 56: risk = assess_risk(request)
Assess ==
    /\ assess_call = <<>>
    /\ \E text \in Texts : assess_call' = <<[text |-> text, out |-> assess(text)]>>
    /\ UNCHANGED <<_policies, _tenant_policies, _base_policy, _virtual, _prices, _providers, request,
                   policies_dir, loaded_dir, kv_store, now, bt_call, bt_pending,
                   classify_call, upstream, body, stream_phase, match_calls,
                   audit_logger_vars, spend_calls,
                   policy_reads, risk, classification, budget_pct, pc, matched,
                   models_to_try, idx, fallback_used, actual_model, actual_provider_name,
                   served_idx, calls, outcome, error, audit_tasks, audit_log, http_status>>

NextAssess == Assess

SpecAssess == InitAssess /\ [][NextAssess]_vars

(***************************************************************************)
(* Concurrent calls of AuditLogger.log on one event loop.  A call is cut    *)
(* at the entry and at the exit of "async with self._lock".                 *)
(***************************************************************************)
MaxLogCalls == 3

LogRecords ==
    {[request_id |-> "a", dumps_raises |-> ""],
     [request_id |-> "b", dumps_raises |-> ""],
     [request_id |-> "c", dumps_raises |-> "ValueError"],
     [request_id |-> "c", dumps_raises |-> "RecursionError"]}

InitAudit ==
    /\ RequestStart
    /\ NoPolicyFiles
    /\ request = [stream |-> FALSE, x_tenant_id |-> "", x_user_id |-> "u1"]
    /\ kv_store = EmptyStore
    /\ now = 0
    /\ bt_call = <<>>
    /\ bt_pending = <<>>
    /\ NoLogs
    /\ classify_call = <<>>
    /\ upstream = <<>>
    /\ body = <<>>
    /\ stream_phase = "unopened"

audit_unchanged ==
    UNCHANGED <<_policies, _tenant_policies, _base_policy, _virtual, _prices, _providers, request,
                policies_dir, loaded_dir, kv_store, now, bt_call, bt_pending,
                classify_call, upstream, body, stream_phase, match_calls, assess_call,
                spend_calls,
                policy_reads, risk, classification, budget_pct, pc, matched,
                models_to_try, idx, fallback_used, actual_model, actual_provider_name,
                served_idx, calls, outcome, error, audit_tasks, audit_log, http_status>>

\* how a call ends when exc is raised inside the try of lines 46-53: the except
\* clause catches it and logs, or it leaves the call
log_after_exception(task, exc) ==
    [task EXCEPT !.at = "done", !.exc = "", !.raised = ~caught_by_except_Exception(exc)]

\* log, lines 46-48: the line is built and the call comes to the lock
LogCall ==
    /\ Len(log_tasks) < MaxLogCalls
    /\ \E record \in LogRecords :
          log_tasks' = Append(log_tasks,
              IF json_dumps_raises(record)
              THEN log_after_exception(
                       [record |-> record, line |-> <<>>, at |-> "lock", exc |-> "",
                        written |-> FALSE, raised |-> FALSE],
                       json_dumps_exception(record))
              ELSE [record |-> record, line |-> json_dumps(record) \o <<"\n">>,
                    at |-> "lock", exc |-> "", written |-> FALSE, raised |-> FALSE])
    /\ UNCHANGED <<_lock, audit_file>>
    /\ audit_unchanged

\* line 48: the call gets the lock when no call holds it
LogAcquire ==
    /\ \E i \in 1..Len(log_tasks) :
          /\ log_tasks[i].at = "lock"
          /\ _lock = <<>>
          /\ _lock' = <<i>>
          /\ log_tasks' = [log_tasks EXCEPT ![i].at = "open"]
    /\ UNCHANGED audit_file
    /\ audit_unchanged

\* lines 49-50: the file is opened for appending and the line written, or
\* OSError is raised with none or a part of the line in the file
LogWrite ==
    /\ \E i \in 1..Len(log_tasks) :
          /\ log_tasks[i].at = "open"
          /\ \E out \in file_write_outcomes(audit_file, log_tasks[i].line) :
                /\ audit_file' = out.content
                /\ log_tasks' =
                      IF out.raises # ""
                      THEN [log_tasks EXCEPT ![i].at = "unlock_raising",
                                             ![i].exc = out.raises]
                      ELSE [log_tasks EXCEPT ![i].at = "unlock", ![i].written = TRUE]
    /\ UNCHANGED _lock
    /\ audit_unchanged

\* the exit of "async with": the lock is released, and an exception on its way
\* out reaches the except clause
LogRelease ==
    /\ \E i \in 1..Len(log_tasks) :
          /\ log_tasks[i].at \in {"unlock", "unlock_raising"}
          /\ _lock' = <<>>
          /\ log_tasks' =
                IF log_tasks[i].at = "unlock"
                THEN [log_tasks EXCEPT ![i].at = "done"]
                ELSE [log_tasks EXCEPT ![i] = log_after_exception(log_tasks[i],
                                                                   log_tasks[i].exc)]
    /\ UNCHANGED audit_file
    /\ audit_unchanged

NextAudit == LogCall \/ LogAcquire \/ LogWrite \/ LogRelease

SpecAudit == InitAudit /\ [][NextAudit]_vars

(***************************************************************************)
(* Properties.                                                             *)
(***************************************************************************)
Decided == pc \notin {"received", "classified", "budget_read"} /\ http_status # 500

\* the policy that match and route resolve for the request
CurPolicy == resolve_policy(classification.department, request.x_tenant_id)

\* the rule that left the risk gate and entered the budget steps
Gated == match_gated(CurPolicy[1], classification, risk, request.x_tenant_id)

TraceHas(name) == \E i \in 1..Len(matched.trace) : matched.trace[i].rule = name

ConstraintsHas(tag) == \E i \in 1..Len(matched.constraints) : matched.constraints[i] = tag

HasTierRule(policy, tier) == \E i \in 1..Len(policy.rules) : policy.rules[i].model_tier = tier

\* the rules of the policy whose resolved provider the risk predicate allows
AllowedRules(policy, r) ==
    {i \in 1..Len(policy.rules) :
        is_provider_allowed(_resolve_rule(policy.rules[i]).provider, r)}

\* the policy has rules, and every rule (and the default rule) is direct commercial
OnlyDirectCommercial(policy) ==
    /\ policy.rules # <<>>
    /\ \A i \in 1..Len(policy.rules) :
          _resolve_rule(policy.rules[i]).provider \in DIRECT_COMMERCIAL_PROVIDERS
    /\ policy.default_rule # <<>> =>
          _resolve_rule(policy.default_rule[1]).provider \in DIRECT_COMMERCIAL_PROVIDERS

\* C1: whenever the risk assessment forbids direct commercial providers, the
\* outcome returned by route names a provider outside anthropic/openai/gemini.
C1_NoDirectCommercialOutcome ==
    (outcome # <<>> /\ risk.direct_commercial_forbidden)
        => outcome[1].actual_provider \notin DIRECT_COMMERCIAL_PROVIDERS

\* C2: a terminated chat-completions request has made exactly one call to
\* AuditLogger.log, whether it succeeded or ended in a RoutingError.
C2_ExactlyOneAuditCall ==
    pc = "done" => Len(audit_log) = 1

\* the rule that the scan selected, with its virtual ids resolved
Scanned == match_scan(CurPolicy[1], classification, risk, request.x_tenant_id)

\* the risk gate has a rule to switch to: the scanned rule's provider is
\* forbidden and some rule at or above the floor, or of local tier, is allowed
GateSwitches ==
    /\ ~is_provider_allowed(Scanned.rule.provider, risk)
    /\ \E i \in AllowedRules(CurPolicy[1], risk) :
          \/ _tier_rank(CurPolicy[1].rules[i].model_tier) >= _tier_rank(risk.required_min_tier)
          \/ CurPolicy[1].rules[i].model_tier = "local"

\* C3 as stated: the rule returned by match has a tier at or above the risk
\* floor, unless every rule of the policy with a risk-allowed provider is a
\* local-tier rule.
C3_Original ==
    (Decided /\ CurPolicy # <<>>)
        => \/ _tier_rank(matched.rule.model_tier) >= _tier_rank(risk.required_min_tier)
           \/ \A i \in AllowedRules(CurPolicy[1], risk) :
                 CurPolicy[1].rules[i].model_tier = "local"

\* C3 amended: when the risk gate replaces a rule whose provider is forbidden,
\* the rule returned by match is at or above the risk floor or is a local-tier
\* rule.
C3_SwitchedRuleAtFloorOrLocal ==
    (Decided /\ CurPolicy # <<>> /\ GateSwitches)
        => \/ _tier_rank(matched.rule.model_tier) >= _tier_rank(risk.required_min_tier)
           \/ matched.rule.model_tier = "local"

\* C3 witness: the gate replaced a forbidden rule by an allowed rule at or above
\* the floor, in a policy that also holds an allowed rule below the floor.
C3_Witness ==
    /\ Decided /\ CurPolicy # <<>> /\ GateSwitches
    /\ TraceHas("risk_gate_regulated")
    /\ ConstraintsHas("risk_floor_regulated")
    /\ is_provider_allowed(matched.rule.provider, risk)
    /\ _tier_rank(matched.rule.model_tier) >= _tier_rank(risk.required_min_tier)
    /\ \E i \in AllowedRules(CurPolicy[1], risk) :
          CurPolicy[1].rules[i].model_tier = "fast_cheap"

\* C4: the budget steps of match (static cap, force-cheap, one-tier downgrade)
\* keep a rule that is at or above the risk floor at or above the risk floor.
C4_BudgetKeepsFloor ==
    (Decided /\ CurPolicy # <<>>
       /\ _tier_rank(Gated.rule.model_tier) >= _tier_rank(risk.required_min_tier))
        => _tier_rank(matched.rule.model_tier) >= _tier_rank(risk.required_min_tier)

\* C4 witness: a budget step replaced a rule above the floor of a high-risk request.
C4_Witness ==
    /\ Decided /\ CurPolicy # <<>>
    /\ risk.required_min_tier = "balanced"
    /\ _tier_rank(Gated.rule.model_tier) > _tier_rank("balanced")
    /\ (ConstraintsHas("budget_downgrade") \/ ConstraintsHas("budget_max_tier_balanced"))
    /\ matched.rule # Gated.rule

InDowngradeBand ==
    /\ float_ge_int(budget_pct, CurPolicy[1].budget_controls.downgrade_at_percent)
    /\ ~float_ge_int(budget_pct, CurPolicy[1].budget_controls.force_cheap_at_percent)

NoDowngradeApplied ==
    /\ TraceHas("risk_gate_high")
    /\ ~TraceHas("budget_guard_downgrade")
    /\ matched.rule = Gated.rule

\* C5: when risk is high and budget_pct is in the downgrade band, match applies
\* no budget downgrade: the trace has a risk_gate_high entry and no
\* budget_guard_downgrade entry, and the returned rule is the one the risk gate
\* produced.
C5_HighRiskNoBudgetDowngrade ==
    (Decided /\ CurPolicy # <<>> /\ risk.risk_level = "high" /\ InDowngradeBand)
        => NoDowngradeApplied

ForceCheapCase ==
    /\ Decided /\ CurPolicy # <<>>
    /\ float_ge_int(budget_pct, CurPolicy[1].budget_controls.force_cheap_at_percent)
    /\ risk.required_min_tier = "fast_cheap"

\* C6 as stated: with budget_pct at or above the force threshold and a
\* fast_cheap floor, the returned rule has tier fast_cheap and the constraints
\* contain budget_force_cheap.
C6_Original ==
    ForceCheapCase
        => /\ matched.rule.model_tier = "fast_cheap"
           /\ ConstraintsHas("budget_force_cheap")

\* C6 amended: the same, for a policy that has at least one fast_cheap rule.
C6_ForceCheap ==
    (ForceCheapCase /\ HasTierRule(CurPolicy[1], "fast_cheap"))
        => /\ matched.rule.model_tier = "fast_cheap"
           /\ ConstraintsHas("budget_force_cheap")

\* C6 witness: force-cheap replaced a rule of another tier by the fast_cheap rule.
C6_Witness ==
    /\ ForceCheapCase
    /\ HasTierRule(CurPolicy[1], "fast_cheap")
    /\ Gated.rule.model_tier \in {"balanced", "powerful"}
    /\ matched.rule.model_tier = "fast_cheap"

AllCallsDirectCommercial ==
    \A i \in 1..Len(calls) : calls[i].provider \in DIRECT_COMMERCIAL_PROVIDERS

\* C7 as stated: the terminal error is a governance block exactly when direct
\* commercial providers are forbidden and every attempted candidate was one.
C7_Original ==
    pc = "raised"
        => (error[1].governance_blocked
              <=> (risk.direct_commercial_forbidden /\ AllCallsDirectCommercial))

\* C7 amended: the terminal error is a governance block exactly when the risk
\* assessment forbids direct commercial providers, whatever was attempted.
C7_GovernanceIffForbidden ==
    pc = "raised"
        => /\ error # <<>>
           /\ outcome = <<>>
           /\ error[1].governance_blocked <=> risk.direct_commercial_forbidden

\* C7 witness: a forbidden-risk request whose only attempts went to a
\* self-hosted provider and failed.
C7_Witness ==
    /\ pc = "raised"
    /\ risk.direct_commercial_forbidden
    /\ calls # <<>>
    /\ \A i \in 1..Len(calls) : calls[i].provider \in OSS_PROVIDERS
    /\ error[1].governance_blocked

\* C8: a RoutingError is answered with 451 when governance_blocked and with
\* 502 otherwise.
C8_StatusByGovernance ==
    (pc = "done" /\ error # <<>>)
        => http_status = IF error[1].governance_blocked THEN 451 ELSE 502

\* C9: a high or regulated request on a policy with only direct-commercial
\* rules ends as a 451 governance block with one audit failure record whose
\* error is populated, and never as a success.
C9_GovernanceBlockAudited ==
    (pc = "done" /\ CurPolicy # <<>> /\ risk.direct_commercial_forbidden
       /\ OnlyDirectCommercial(CurPolicy[1]))
        => /\ http_status = 451
           /\ outcome = <<>>
           /\ Len(audit_log) = 1
           /\ audit_log[1].error # ""

\* C10: in a returned outcome fallback_used tells whether the serving candidate
\* is not the first of the list, and actual_model_used / actual_provider are
\* that candidate's model and provider.
C10_OutcomeNamesServingCandidate ==
    outcome # <<>>
        => /\ served_idx \in 1..Len(models_to_try)
           /\ outcome[1].fallback_used <=> (served_idx # 1)
           /\ outcome[1].actual_model_used = models_to_try[served_idx].model
           /\ outcome[1].actual_provider = models_to_try[served_idx].provider

\* C10 witness: the primary raised ProviderError and the first fallback served.
C10_Witness ==
    /\ outcome # <<>>
    /\ served_idx = 2
    /\ Len(calls) = 2
    /\ outcome[1].fallback_used
    /\ outcome[1].actual_model_used # models_to_try[1].model

(***************************************************************************)
(* Policy resolution and reload.                                           *)
(***************************************************************************)
\* The precedence of the policies: tenant-scoped, global, base, none.
Precedence(ix, department, tenant_id) ==
    IF tenant_id # "" /\ ix._tenant_policies[<<tenant_id, department>>] # <<>>
    THEN ix._tenant_policies[<<tenant_id, department>>]
    ELSE IF ix._policies[department] # <<>> THEN ix._policies[department]
    ELSE ix._base_policy

\* C11: resolve_policy returns the tenant-scoped policy of (tenant, department)
\* if one is loaded, else the global policy of the department, else the base
\* policy, else none; match selects its policy by the same precedence.
C11_ResolvePrecedence ==
    \A d \in AllDepartments, t \in {""} \cup AllTenants :
        /\ resolve_policy(d, t) = Precedence(Indexes, d, t)
        /\ match_select(d, t) = Precedence(Indexes, d, t)

C11_Witness ==
    /\ pc = "dispatch"
    /\ request.x_tenant_id = "t1"
    /\ _policies["rd"] # <<>>
    /\ match_policy # <<>>
    /\ match_policy[1].tenant_id = "t1"
    /\ TraceHas("tenant_policy_select")

(***************************************************************************)
(* The fallback of last resort.                                            *)
(***************************************************************************)
\* No policy resolves, or the policy has no matching rule and no default_rule.
EmergencyCase ==
    /\ Decided
    /\ \/ CurPolicy = <<>>
       \/ /\ CurPolicy # <<>>
          /\ CurPolicy[1].default_rule = <<>>
          /\ \A i \in 1..Len(CurPolicy[1].rules) :
                rule_skipped(CurPolicy[1].rules[i], classification)

\* C12 as stated: in that case match returns an OSS local-tier rule if
\* direct commercial providers are forbidden and a cheap commercial rule
\* otherwise.
C12_Original ==
    EmergencyCase =>
        IF risk.direct_commercial_forbidden
        THEN matched.rule.provider \in OSS_PROVIDERS /\ matched.rule.model_tier = "local"
        ELSE /\ matched.rule.provider \in DIRECT_COMMERCIAL_PROVIDERS
             /\ matched.rule.model_tier = "fast_cheap"

\* C12 amended: the same, except that without the prohibition the force-cheap
\* step of the budget guard may replace the cheap commercial rule by a
\* fast_cheap rule of the policy; under the prohibition the provider of the
\* returned rule is never direct commercial.
C12_EmergencyFallback ==
    EmergencyCase =>
        IF risk.direct_commercial_forbidden
        THEN /\ matched.rule.provider \in OSS_PROVIDERS
             /\ matched.rule.model_tier = "local"
             /\ matched.rule.provider \notin DIRECT_COMMERCIAL_PROVIDERS
        ELSE \/ /\ matched.rule.provider \in DIRECT_COMMERCIAL_PROVIDERS
                /\ matched.rule.model_tier = "fast_cheap"
                /\ matched.rule.name = "emergency_fallback"
             \/ /\ TraceHas("budget_guard_force_cheap")
                /\ CurPolicy # <<>>
                /\ \E i \in 1..Len(CurPolicy[1].rules) :
                      /\ matched.rule = CurPolicy[1].rules[i]
                      /\ matched.rule.model_tier = "fast_cheap"

C12_Witness ==
    /\ EmergencyCase
    /\ CurPolicy # <<>>
    /\ risk.direct_commercial_forbidden
    /\ matched.rule.name = "emergency_fallback_oss"
    /\ matched.rule.provider = "ollama"

(***************************************************************************)
(* Reload against requests in flight.                                      *)
(***************************************************************************)
\* C13: a resolve_policy or match call of a request in flight never observes
\* cleared or partially loaded indexes: what it reads is what the complete
\* indexes of the last load give, before the reload or after it.
C13_NoTornRead ==
    [][ /\ (pc = "classified" /\ pc' # "classified")
            => selected_policy' = Precedence(PolicyEngine__init__(loaded_dir),
                                             classification'.department, request.x_tenant_id)
        /\ (pc # "dispatch" /\ pc' = "dispatch")
            => match_policy' = Precedence(PolicyEngine__init__(loaded_dir),
                                          classification'.department, request.x_tenant_id)
      ]_vars

\* a reload has changed the policy of a request that waits for its budget read
C13_Witness ==
    /\ pc = "budget_read"
    /\ selected_policy # resolve_policy(classification.department, request.x_tenant_id)
    /\ resolve_policy(classification.department, request.x_tenant_id) # <<>>

PolicyVersionOf(policy) ==
    IF policy = <<>> THEN "unknown"
    ELSE IF policy[1].tenant_id # ""
         THEN policy[1].tenant_id \o ":" \o policy[1].department \o "-v" \o policy[1].version
         ELSE policy[1].department \o "-v" \o policy[1].version

\* C14: a request in flight while reload runs uses one policy snapshot: the
\* policy whose budget_controls feed get_budget_pct, the policy that match
\* scans and the policy named by policy_version are the same policy.
C14_OneSnapshot ==
    pc = "dispatch" =>
        /\ selected_policy = match_policy
        /\ policy_version = PolicyVersionOf(selected_policy)

\* C15: after a reload the global index, the tenant index and the base policy
\* are those of a PolicyEngine constructed on the directory contents that the
\* reload read, whatever was loaded before.
C15_ReloadIsColdStart == Indexes = PolicyEngine__init__(loaded_dir)

\* a reload has dropped the rd policy that a waiting request had resolved
C15_Witness ==
    /\ pc = "budget_read"
    /\ selected_policy = <<F_rd_v1.policy>>
    /\ loaded_dir = <<F_base>>
    /\ _policies["rd"] = <<>>
    /\ _base_policy = <<F_base.policy>>

DeclaredFailure(call) ==
    \/ call.up.kind \in {"timeout", "error", "no_content", "bad_json"}
    \/ call.up.kind = "json" /\ ~result_is_valid(call.up.data)
    \/ call.up.kind = "json" /\ result_is_valid(call.up.data)
         /\ data_confidence(call.up.data) < routing_brain_confidence_threshold

\* C16: classify never raises; on a timeout, an upstream error, a parse failure or a
\* confidence below the threshold it returns the heuristic fallback (confidence 0.5,
\* classified_by heuristic_fallback), and a meta_llm result has confidence >= threshold.
C16_ClassifyNeverRaises ==
    \A i \in 1..Len(classify_call) :
        LET call == classify_call[i] IN
        /\ ~call.out.raised
        /\ Len(call.out.result) = 1
        /\ (call.api_key /\ DeclaredFailure(call)) =>
              /\ call.out.result = <<_heuristic_fallback(call.pre_analysis)>>
              /\ call.out.result[1].confidence = 50
              /\ call.out.result[1].classified_by = "heuristic_fallback"
        /\ call.out.result[1].classified_by = "meta_llm" =>
              call.out.result[1].confidence >= routing_brain_confidence_threshold

\* The same statement for the calls in which the system prompt loads.
ClassifyFallsBackWhenPromptLoads ==
    \A i \in 1..Len(classify_call) :
        LET call == classify_call[i] IN
        (~prompt_load_raises(call.prompt) \/ ~call.api_key) =>
            /\ ~call.out.raised
            /\ Len(call.out.result) = 1
            /\ (call.api_key /\ DeclaredFailure(call)) =>
                  /\ call.out.result = <<_heuristic_fallback(call.pre_analysis)>>
                  /\ call.out.result[1].confidence = 50
                  /\ call.out.result[1].classified_by = "heuristic_fallback"
            /\ call.out.result[1].classified_by = "meta_llm" =>
                  call.out.result[1].confidence >= routing_brain_confidence_threshold

\* the keys of the counters of the day of instant t
DayKeys(t) ==
    { _tenant_key(tenant_id, t) : tenant_id \in BudgetTenants }
    \cup { _user_key(tenant_id, user_id, t) : tenant_id \in BudgetTenants,
                                              user_id \in BudgetUsers }

\* C17: within one UTC day every tenant and user spend counter is non-decreasing
\* under any sequence and interleaving of record_spend calls, and a record_spend
\* call with amount <= 0 leaves every counter unchanged.
C17_CountersMonotone ==
    [][ /\ (now' \div 86400000 = now \div 86400000) =>
              \A k \in DayKeys(now) : kv_get(kv_store', k, now') >= kv_get(kv_store, k, now)
        /\ \A r \in DOMAIN bt_pending :
              (r \notin DOMAIN bt_pending' /\ bt_pending[r].amount_usd <= 0) =>
                  kv_store' = kv_store ]_vars

\* the record_spend calls of two requests in flight at once have both been applied,
\* the second on the day after its call
C17_Witness ==
    /\ now = 86400000
    /\ bt_pending = <<>>
    /\ kv_get(kv_store, _tenant_key("t1", 86399500), now) = 2
    /\ kv_get(kv_store, _user_key("t1", "u1", 86399500), now) = 1
    /\ kv_get(kv_store, _user_key("t1", "u2", 86399500), now) = 1
    /\ kv_store[_user_key("t1", "u1", 86399500)].expire_at = 86459500
    /\ kv_store[_user_key("t1", "u2", 86399500)].expire_at > 86460000

\* the budget read of the request gave no figure: the MGET failed, or the
\* policy sets no daily limit
budget_read_void(call) ==
    call.op = "get_budget_pct" /\ (call.kv.raises # "" \/ ~call.limits_set)

\* what get_budget_pct returns for the request from a store without any spend
zero_spend_pct ==
    get_budget_pct(selected_policy[1].budget_controls,
        mget(EmptyStore, or_unknown(request.x_tenant_id), or_unknown(request.x_user_id),
             now, now, now, KvOk))

\* C18: a failure of the key-value store never fails a request: no call of the
\* BudgetTracker raises and no request ends in an internal error; get_budget_pct
\* returns 0 when the read fails or when both daily limits are unset, and route
\* then goes on exactly as with no recorded spend, with the budget_pct and the
\* match of an empty store; record_spend swallows write errors, and route
\* returns the outcome of the served request and the request ends with 200.
C18_StoreFailuresSwallowed ==
    /\ http_status # 500
    /\ \A i \in 1..Len(bt_call) :
          /\ ~bt_call[i].raised
          /\ budget_read_void(bt_call[i]) =>
                /\ bt_call[i].pct = float_zero
                /\ budget_pct = zero_spend_pct
                /\ matched = match(classification, risk, zero_spend_pct, request.x_tenant_id)
                /\ pc # "budget_read"
          /\ (bt_call[i].op = "record_spend" /\ bt_call[i].kv.raises # "") =>
                /\ pc \in {"recorded", "returned", "responded", "done"}
                /\ pc # "recorded" =>
                      /\ Len(outcome) = 1
                      /\ \A f \in DOMAIN RoutingOutcome(route_locals, matched, risk) :
                            outcome[1][f] = RoutingOutcome(route_locals, matched, risk)[f]
                /\ error = <<>>
                /\ pc \in {"responded", "done"} => http_status = 200

\* the read of a request of a tenant at 105 % of its daily limit failed, match
\* returned the balanced rule, the write of the spend failed after the store
\* had applied it, and the request ended with 200
C18_Witness ==
    /\ pc = "done"
    /\ http_status = 200
    /\ Len(bt_call) = 2
    /\ bt_call[1].op = "get_budget_pct"
    /\ bt_call[1].limits_set
    /\ bt_call[1].kv.raises = "redis.ConnectionError"
    /\ bt_call[2].op = "record_spend"
    /\ bt_call[2].kv = [applied |-> TRUE, raises |-> "redis.TimeoutError"]
    /\ kv_get(kv_store, _tenant_key("t1", now), now) > 21
    /\ matched.rule.model_tier = "balanced"

\* C19: for a streaming request the audit write is scheduled before any element of
\* the response body is produced, so a provider failure in the middle of the stream
\* leaves the request with its audit record: once the body has an element or
\* the stream has been opened, the record of the request is the one scheduled
\* write or the one record written.
C19_AuditScheduledBeforeBody ==
    (request.stream /\ (body # <<>> \/ stream_phase # "unopened")) =>
        /\ outcome # <<>>
        /\ audit_tasks \o audit_log = <<build_record(outcome[1])>>

RoutingEvents(seq) == { i \in 1..Len(seq) : seq[i].event = "routing_decision" }

\* C20: the body of a streaming response starts with exactly one routing_decision
\* event, followed by the chunks of the upstream provider in their order, none
\* dropped, duplicated or reordered, and no chunk precedes the event.
C20_EventThenChunksInOrder ==
    (request.stream /\ stream_phase # "unopened") =>
        /\ body # <<>>
        /\ body[1] = routing_event(outcome[1])
        /\ RoutingEvents(body) = {1}
        /\ Tail(body) = upstream

\* the stream has ended after two different chunks
C20_Witness ==
    /\ stream_phase = "closed"
    /\ Len(upstream) = 2
    /\ upstream[1] # upstream[2]
    /\ Len(body) = 3

\* a pattern set has a hit on the text
set_hit(patterns, text) ==
    \E i \in 1..Len(patterns) : \E k \in 1..Len(patterns[i].terms) :
        \E j \in 1..Len(text) : lower(text[j]) = patterns[i].terms[k]

highest_set_hit(text) ==
    IF set_hit(REGULATED_PATTERNS, text) THEN "regulated"
    ELSE IF set_hit(HIGH_RISK_PATTERNS, text) THEN "high"
    ELSE IF set_hit(MEDIUM_RISK_PATTERNS, text) THEN "medium"
    ELSE "low"

\* C22: the risk level is the highest-weight pattern set with a hit (regulated >
\* high > medium > low); regulated and high have direct_commercial_forbidden and
\* audit_required true and required_min_tier balanced, medium and low have
\* direct_commercial_forbidden false, and oss_forbidden is false in every case.
C22_HighestWeightWins ==
    \A i \in 1..Len(assess_call) :
        LET text == assess_call[i].text
            out == assess_call[i].out
        IN  /\ out.risk_level = highest_set_hit(text)
            /\ out.risk_level \in {"regulated", "high"} =>
                  /\ out.direct_commercial_forbidden
                  /\ out.audit_required
                  /\ out.required_min_tier = "balanced"
            /\ out.risk_level \in {"medium", "low"} => ~out.direct_commercial_forbidden
            /\ ~out.oss_forbidden

\* a text with a medium and a high pattern has been assessed
C22_Witness ==
    /\ assess_call # <<>>
    /\ assess_call[1].text = <<W_customer, W_password>>
    /\ assess_call[1].out.risk_level = "high"
    /\ Len(assess_call[1].out.signals) = 2

\* the assessment that the request actions use for a level is the one assess builds
AssessmentOfLevel ==
    \A i \in 1..Len(assess_call) :
        LET out == assess_call[i].out
        IN  [risk_level |-> out.risk_level,
             direct_commercial_forbidden |-> out.direct_commercial_forbidden,
             oss_forbidden |-> out.oss_forbidden,
             required_min_tier |-> out.required_min_tier,
             audit_required |-> out.audit_required] = RiskAssessment(out.risk_level)

\* the calls of log that have appended their line
written_calls == {i \in 1..Len(log_tasks) : log_tasks[i].written}

\* the complete lines of a text: the pieces between its newlines, each one
\* ended by a newline
RECURSIVE lines_of(_)
lines_of(text) ==
    IF \A k \in 1..Len(text) : text[k] # "\n" THEN <<>>
    ELSE LET k == CHOOSE i \in 1..Len(text) :
                      text[i] = "\n" /\ \A j \in 1..(i - 1) : text[j] # "\n"
         IN  <<SubSeq(text, 1, k - 1)>> \o lines_of(SubSeq(text, k + 1, Len(text)))

valid_files(dir) == SelectSeq(dir, LAMBDA file : file.loads)

\* C24: a policy file that fails to load is skipped: the indexes are those of a
\* directory holding the valid files alone, so the failing file adds nothing
\* and every valid file, before or after it, is loaded.
C24_FailingFileSkipped ==
    /\ Indexes = PolicyEngine__init__(valid_files(loaded_dir))
    /\ \A i \in 1..Len(loaded_dir) :
          ~loaded_dir[i].loads =>
              /\ \A d \in AllDepartments :
                    _policies[d] = <<loaded_dir[i].policy>> =>
                        \E j \in 1..Len(loaded_dir) :
                            loaded_dir[j].loads /\ loaded_dir[j].policy = loaded_dir[i].policy
              /\ _base_policy # <<loaded_dir[i].policy>>

\* a directory with a failing file between two valid ones is loaded while a
\* request is served: both valid files are in the indexes, the failing file's
\* policy is not
C24_Witness ==
    /\ loaded_dir = <<F_t1_rd, F_broken, F_base>>
    /\ Decided
    /\ _tenant_policies[<<"t1", "rd">>] = <<F_t1_rd.policy>>
    /\ _base_policy = <<F_base.policy>>
    /\ _policies["rd"] = <<>>

\* the headers of the response that chat_completions returned
response_headers ==
    IF http_status = 200
    THEN response_headers_of(request.stream, outcome[1], classification)
    ELSE <<>>

RoutingHeaders ==
    {"X-Request-Id", "X-Routing-Model", "X-Routing-Provider", "X-Task-Type",
     "X-Complexity", "X-Risk-Level", "X-Audit-Required"}

\* C25: every successful chat-completions response, streaming or not, carries
\* the headers X-Request-Id, X-Routing-Model, X-Routing-Provider, X-Task-Type,
\* X-Complexity, X-Risk-Level and X-Audit-Required.
C25_AllRoutingHeaders ==
    http_status = 200 => RoutingHeaders \subseteq DOMAIN response_headers

\* a streaming response carries the seven headers; a non-streaming response
\* carries X-Request-Id and X-Routing-Model and no other
HeadersByResponseKind ==
    http_status = 200 =>
        IF request.stream
        THEN RoutingHeaders \subseteq DOMAIN response_headers
        ELSE DOMAIN response_headers = {"X-Request-Id", "X-Routing-Model"}

\* the candidates that route has gone through: up to the one that served, or
\* up to the one whose call route waits for, or all those before the one under
\* attempt
candidates_passed ==
    SubSeq(models_to_try, 1, IF served_idx > 0 THEN served_idx
                             ELSE IF pc = "calling" THEN idx ELSE idx - 1)

\* C26: route attempts the candidates in list order: the calls made are the
\* candidates with an adapter among those gone through, in their order, each
\* of them but the serving one having raised ProviderError; once a candidate
\* has served, no further call is made.
C26_CandidatesInOrder ==
    /\ [](/\ Decided =>
                calls = SelectSeq(candidates_passed,
                                  LAMBDA cand : cand.provider \in _providers)
          /\ served_idx > 0 =>
                /\ calls # <<>>
                /\ calls[Len(calls)] = models_to_try[served_idx]
                /\ Len(candidates_passed) = served_idx)
    /\ [][served_idx > 0 => calls' = calls /\ served_idx' = served_idx]_vars

\* the first candidate has no adapter, the second was called and failed, the
\* third served
C26_Witness ==
    /\ served_idx = 3
    /\ Len(calls) = 2
    /\ models_to_try[1].provider \notin _providers
    /\ calls = <<models_to_try[2], models_to_try[3]>>
    /\ pc = "returned"

\* a candidate after the serving one has an adapter
later_candidate_usable ==
    /\ served_idx > 0
    /\ \E k \in (served_idx + 1)..Len(models_to_try) : models_to_try[k].provider \in _providers

\* C27: when the stream of the chosen candidate fails with ProviderError, the
\* engine goes on to the next candidate as on the non-streaming path: a later
\* candidate with an adapter is called after the failure.
C27_StreamFailureFallsBack ==
    (stream_phase = "failed" /\ later_candidate_usable) ~> (Len(calls) >= 2)

\* a stream that failed leaves the request where the response left it: the
\* serving candidate is the only one called and the status sent stays 200
StreamFailureEndsRequest ==
    stream_phase = "failed" =>
        /\ calls = <<models_to_try[served_idx]>>
        /\ pc = "responded"
        /\ http_status = 200

\* C28: the spend of a request is recorded at most once and only for the
\* candidate that served: route makes exactly one record_spend call when it
\* returns a body (for a streaming request with the estimated prompt tokens and
\* no completion tokens, before the response and any chunk of it exist), and
\* none for a failed attempt or for a request that ends in a RoutingError.
C28_SpendOncePerServedRequest ==
    /\ Len(spend_calls) <= 1
    /\ pc \in {"received", "classified", "budget_read", "dispatch", "calling", "raised"}
          => spend_calls = <<>>
    /\ error # <<>> => spend_calls = <<>>
    /\ outcome # <<>> =>
          /\ Len(spend_calls) = 1
          /\ spend_calls[1].model_id = models_to_try[served_idx].model
          /\ spend_calls[1].model_id = outcome[1].actual_model_used
          /\ request.stream =>
                /\ spend_calls[1].prompt_tokens = pre_analysis.estimated_tokens
                /\ spend_calls[1].completion_tokens = 0
    /\ (request.stream /\ spend_calls = <<>>) => (http_status # 200 /\ body = <<>>)

\* the primary failed, the fallback served and its spend alone is recorded,
\* with the provider's token counts
C28_Witness ==
    /\ pc = "returned"
    /\ ~request.stream
    /\ Len(calls) = 2
    /\ served_idx = 2
    /\ Len(spend_calls) = 1
    /\ spend_calls[1].model_id = models_to_try[2].model
    /\ spend_calls[1].completion_tokens = 7

\* a filter of a rule accepts a value of the classification
filter_accepts(filter, value) == filter = "" \/ filter = value

\* the scan that match ran for the request, and the number of trace entries
\* that match put before it
request_scan == _find_rule_with_trace(match_policy[1], classification, risk)

scan_offset ==
    IF request.x_tenant_id # "" /\ match_policy[1].tenant_id = request.x_tenant_id
    THEN 1 ELSE 0

\* C29: the rule scan returns the first rule in declared order whose task_type
\* and complexity filters, where set, both equal the classification's; its
\* trace is one skipped entry per earlier rule, in order, and then exactly one
\* matched entry; without a matching rule it returns the default_rule, and
\* without a default_rule the emergency fallback.
C29_FirstMatchingRule ==
    (Decided /\ match_policy # <<>>) =>
        LET rules == match_policy[1].rules
            default_rule == match_policy[1].default_rule
            n == Len(request_scan.trace)
        IN  /\ n >= 1
            /\ n <= Len(rules) + 1
            /\ \A i \in 1..(n - 1) :
                  /\ request_scan.trace[i] = [rule |-> rules[i].name, result |-> "skipped"]
                  /\ ~(/\ filter_accepts(rules[i].task_type, classification.task_type)
                       /\ filter_accepts(rules[i].complexity, classification.complexity))
            /\ request_scan.trace[n].result = "matched"
            /\ IF n <= Len(rules)
               THEN /\ request_scan.rule = rules[n]
                    /\ request_scan.trace[n].rule = rules[n].name
                    /\ filter_accepts(rules[n].task_type, classification.task_type)
                    /\ filter_accepts(rules[n].complexity, classification.complexity)
               ELSE IF default_rule # <<>>
               THEN /\ request_scan.rule = default_rule[1]
                    /\ request_scan.trace[n].rule = default_rule[1].name
               ELSE /\ request_scan.rule = _emergency_fallback(risk)
                    /\ request_scan.trace[n].rule = "emergency_fallback"
            /\ SubSeq(matched.trace, scan_offset + 1, scan_offset + n) = request_scan.trace
            /\ (risk.risk_level = "low" /\ budget_pct = float_zero
                /\ match_policy[1].budget_controls.max_tier = "") =>
                    matched.rule = _resolve_rule(request_scan.rule)

\* two rules are skipped, one on its task_type and one on its complexity, and
\* the default rule is returned
C29_Witness ==
    /\ pc = "dispatch"
    /\ match_policy # <<>>
    /\ Len(match_policy[1].rules) = 2
    /\ match_policy[1].rules[1].task_type = "code_generation"
    /\ match_policy[1].rules[2].complexity = "complex"
    /\ classification.task_type = "general"
    /\ match_policy[1].default_rule # <<>>
    /\ risk.risk_level = "low"
    /\ budget_pct = float_zero
    /\ matched.rule.name = "default"
    /\ Len(matched.trace) = 3

\* the rule that match hands to the risk gate, and the rule the gate returns
gate_in == _resolve_rule(request_scan.rule)

gate_out == _enforce_risk_floor(match_policy[1], risk, gate_in)

\* the rules of the policy that may replace a forbidden rule: resolved provider
\* allowed, tier at or above the floor or local
eligible_rules ==
    {i \in 1..Len(match_policy[1].rules) :
        LET rule == match_policy[1].rules[i]
        IN  /\ is_provider_allowed(_resolve_rule(rule).provider, risk)
            /\ \/ _tier_rank(rule.model_tier) >= _tier_rank(risk.required_min_tier)
               \/ rule.model_tier = "local"}

allowed_fallbacks(rule) ==
    SelectSeq(rule.fallback_models,
              LAMBDA model : is_provider_allowed(PolicyEngine__infer_provider(model), risk))

\* the gate has run on a rule with a forbidden provider and returned an
\* eligible rule of minimal tier rank
gate_switched ==
    \E i \in eligible_rules :
        /\ \A j \in eligible_rules :
              _tier_rank(match_policy[1].rules[i].model_tier)
                  <= _tier_rank(match_policy[1].rules[j].model_tier)
        /\ gate_out = [_resolve_rule(match_policy[1].rules[i]) EXCEPT
                          !.fallback_models =
                              allowed_fallbacks(_resolve_rule(match_policy[1].rules[i]))]

gate_kept == gate_out = [gate_in EXCEPT !.fallback_models = allowed_fallbacks(gate_in)]

gate_ran == Decided /\ match_policy # <<>> /\ risk.risk_level # "low"

\* C30: when the provider of the matched rule is forbidden by the risk
\* predicate, the gate switches to a rule of minimal tier rank among the policy
\* rules whose resolved provider is allowed and whose tier is at or above
\* required_min_tier or local; when the provider is allowed, the gate keeps the
\* rule and removes only the fallback models whose provider is forbidden.
C30_GateSwitchesOrCleans ==
    gate_ran =>
        /\ ~is_provider_allowed(gate_in.provider, risk) => gate_switched
        /\ is_provider_allowed(gate_in.provider, risk) => gate_kept
        /\ (budget_pct = float_zero /\ match_policy[1].budget_controls.max_tier = "") =>
              matched.rule = gate_out

\* the gate does as C30 says whenever the policy has an eligible rule, and keeps
\* the forbidden rule, its fallbacks cleaned, when the policy has none
GateWithAndWithoutEligibleRule ==
    gate_ran =>
        /\ (~is_provider_allowed(gate_in.provider, risk) /\ eligible_rules # {}) =>
              gate_switched
        /\ (~is_provider_allowed(gate_in.provider, risk) /\ eligible_rules = {}) =>
              gate_kept
        /\ is_provider_allowed(gate_in.provider, risk) => gate_kept
        /\ (budget_pct = float_zero /\ match_policy[1].budget_controls.max_tier = "") =>
              matched.rule = gate_out

\* the gate has replaced a forbidden rule by the eligible rule of minimal rank,
\* which stands after a rule of higher rank in the policy
GateSwitchReached ==
    /\ gate_ran
    /\ ~is_provider_allowed(gate_in.provider, risk)
    /\ eligible_rules # {}
    /\ gate_out.name # gate_in.name
    /\ matched.rule = gate_out

\* the entries of the trace of the request that the risk gate wrote
gate_entries ==
    {i \in 1..Len(matched.trace) :
        matched.trace[i].rule \in {"risk_gate_" \o level : level \in RiskLevels}}

has_risk_floor_constraint ==
    \E j \in 1..Len(matched.constraints) :
        matched.constraints[j] = "risk_floor_" \o risk.risk_level

\* C31 as stated: for every match call with a risk level other than low, the
\* trace contains a risk_gate_<level> entry and constraints_applied contains
\* risk_floor_<level>.
C31_Original ==
    (Decided /\ risk.risk_level # "low") =>
        /\ \E i \in 1..Len(matched.trace) :
              matched.trace[i].rule = "risk_gate_" \o risk.risk_level
        /\ has_risk_floor_constraint

\* C31, amended: a match call with a risk level other than low that resolves a
\* policy writes exactly one risk_gate_<level> entry, with result risk_override
\* when the gate returned a rule of another name and matched otherwise, and
\* constraints_applied contains risk_floor_<level> exactly in the first case;
\* a call that resolves no policy returns the emergency fallback with its own
\* entry alone and no constraint; a low-risk call has no gate entry.
C31_GateTraced ==
    Decided =>
        IF risk.risk_level = "low" THEN gate_entries = {} /\ ~has_risk_floor_constraint
        ELSE IF match_policy = <<>>
        THEN /\ matched.trace = <<PolicyTraceEntry("emergency_fallback", "matched")>>
             /\ matched.constraints = <<>>
        ELSE /\ Cardinality(gate_entries) = 1
             /\ \A i \in gate_entries :
                   /\ matched.trace[i].rule = "risk_gate_" \o risk.risk_level
                   /\ matched.trace[i].result =
                         (IF gate_out.name # gate_in.name THEN "risk_override" ELSE "matched")
                   /\ has_risk_floor_constraint <=> matched.trace[i].result = "risk_override"

\* a high-risk request whose rule the gate kept: the entry is there, the
\* constraint is not
C31_Witness ==
    /\ pc = "dispatch"
    /\ risk.risk_level = "high"
    /\ match_policy # <<>>
    /\ is_provider_allowed(gate_in.provider, risk)
    /\ \E i \in gate_entries : matched.trace[i].result = "matched"
    /\ ~has_risk_floor_constraint

\* C32: a budget override of match (static max_tier cap, force-cheap, one-tier
\* downgrade) never replaces a rule that the risk predicate allows by one it
\* forbids: with direct_commercial_forbidden, the rule returned after the budget
\* steps has a provider that is not direct commercial and no fallback model of
\* a direct-commercial provider.
C32_BudgetKeepsRiskAllowed ==
    (/\ Decided
     /\ match_policy # <<>>
     /\ risk.direct_commercial_forbidden
     /\ is_provider_allowed(gate_out.provider, risk)) =>
        /\ matched.rule.provider \notin DIRECT_COMMERCIAL_PROVIDERS
        /\ \A k \in 1..Len(matched.rule.fallback_models) :
              PolicyEngine__infer_provider(matched.rule.fallback_models[k])
                  \notin DIRECT_COMMERCIAL_PROVIDERS


\* The rules the policy of the request writes down: its list and its default.
written_rules ==
    IF match_policy = <<>> THEN {}
    ELSE {match_policy[1].rules[i] : i \in 1..Len(match_policy[1].rules)}
         \cup {match_policy[1].default_rule[i] : i \in 1..Len(match_policy[1].default_rule)}

\* C33: with a virtual-model registry configured, the rule returned by match
\* names concrete models only (no rb:// identifier as primary or fallback) and
\* carries the provider that the registry resolves its primary model to, on
\* every path of match, the budget steps included.
C33_ReturnedRuleConcrete ==
    (Decided /\ _virtual # <<>>) =>
        /\ ~is_virtual(matched.rule.primary_model)
        /\ \A k \in 1..Len(matched.rule.fallback_models) :
              ~is_virtual(matched.rule.fallback_models[k])
        /\ \/ match_policy = <<>>
           \/ \E r \in written_rules :
                 /\ r.name = matched.rule.name
                 /\ matched.rule.provider = resolve(_virtual[1], r.primary_model)[2]
           \/ matched.rule.name \in {"emergency_fallback", "emergency_fallback_oss"}


\* the policy has a rule whose tier is at most the cap and at least the floor
HasRuleWithinCap(policy, max_tier, risk_floor) ==
    \E i \in 1..Len(policy.rules) :
        /\ _tier_rank(policy.rules[i].model_tier) <= _tier_rank(max_tier)
        /\ _tier_rank(policy.rules[i].model_tier) >= _tier_rank(risk_floor)

\* C34: when budget_controls.max_tier is set, the rule entering the static cap
\* has a tier above it and the policy has a rule of a tier at most max_tier and
\* at least the risk floor, the tier of the rule match returns does not exceed
\* max_tier.
C34_StaticCapHolds ==
    (/\ Decided /\ CurPolicy # <<>>
     /\ CurPolicy[1].budget_controls.max_tier \in ModelTier
     /\ _tier_rank(Gated.rule.model_tier)
            > _tier_rank(CurPolicy[1].budget_controls.max_tier)
     /\ HasRuleWithinCap(CurPolicy[1], CurPolicy[1].budget_controls.max_tier,
                         risk.required_min_tier))
        => _tier_rank(matched.rule.model_tier)
               <= _tier_rank(CurPolicy[1].budget_controls.max_tier)


\* the rule that left the static cap and entered the dynamic budget step
Capped == match_static_cap(CurPolicy[1], risk.required_min_tier, Gated)

\* the tier one place after the given one in tier_order, "" after the last
next_tier(tier) ==
    LET tier_idx == CHOOSE i \in 1..Len(tier_order) : tier_order[i] = tier
    IN  IF tier_idx < Len(tier_order) THEN tier_order[tier_idx + 1] ELSE ""

DowngradeTraced == Decided /\ CurPolicy # <<>> /\ TraceHas("budget_guard_downgrade")

\* C35: a trace with budget_guard_downgrade goes with a returned rule whose tier
\* is exactly one rank below the tier of the rule that entered the dynamic
\* budget step, and never holds budget_guard_force_cheap as well.
C35_DowngradeExactlyOneTier ==
    DowngradeTraced =>
        /\ matched.rule.model_tier = next_tier(Capped.rule.model_tier)
        /\ ~TraceHas("budget_guard_force_cheap")

\* C36: for every fallback model of the rule that match returned, the provider
\* that PolicyEngine infers when the risk gate filters the chain equals the
\* provider that RoutingEngine infers when route builds the candidate for it.
C36_SameProviderInferred ==
    Decided =>
        \A k \in 1..Len(matched.rule.fallback_models) :
            build_models_to_try(matched.rule)[k + 1].provider
                = PolicyEngine__infer_provider(matched.rule.fallback_models[k])


\* C37: for a request whose risk assessment forbids direct commercial
\* providers, no call that route made to an adapter, served or failed, went to
\* anthropic, openai or gemini.
C37_NoForbiddenDispatch ==
    risk.direct_commercial_forbidden =>
        \A i \in 1..Len(calls) : calls[i].provider \notin DIRECT_COMMERCIAL_PROVIDERS


\* C38: whenever the trace holds a risk_gate_<level> entry with result matched,
\* the provider of the rule that left the risk gate is allowed by
\* is_provider_allowed for the risk of the request.
C38_GateMatchedMeansAllowed ==
    (gate_ran /\ \E i \in gate_entries : matched.trace[i].result = "matched")
        => is_provider_allowed(gate_out.provider, risk)


\* the sum of the counters of the users of a tenant for the day of instant t
user_spend_sum(store, tenant_id, t) ==
    sum_over([user_id \in BudgetUsers |->
                 kv_get(store, _user_key(tenant_id, user_id, t), t)], BudgetUsers)

\* C39: after any interleaving of record_spend calls for one tenant within one
\* UTC day, the tenant counter equals the sum of that tenant's user counters for
\* the same day, each call adding the same amount to both keys in one atomic
\* transaction: in no state has only one of the two keys of the day been
\* incremented.  The day is the one the clock shows.
C39_TenantIsSumOfUsers ==
    \A tenant_id \in BudgetTenants :
        kv_get(kv_store, _tenant_key(tenant_id, now), now)
            = user_spend_sum(kv_store, tenant_id, now)

\* the spend that the record_spend calls of the set applied_calls added for the
\* requests of a tenant, and for those of a user of the tenant
tenant_spend_applied(applied_calls, x_tenant_id) ==
    sum_over([n \in applied_calls |->
                 IF spend_calls[n].x_tenant_id = x_tenant_id
                 THEN spend_calls[n].amount_usd ELSE 0], applied_calls)

user_spend_applied(applied_calls, x_tenant_id, x_user_id) ==
    sum_over([n \in applied_calls |->
                 IF /\ spend_calls[n].x_tenant_id = x_tenant_id
                    /\ spend_calls[n].x_user_id = x_user_id
                 THEN spend_calls[n].amount_usd ELSE 0], applied_calls)

\* two recorded requests of distinct (tenant, user) pairs use distinct user keys
UserKeysDistinct ==
    \A i, j \in 1..Len(spend_calls) :
        <<spend_calls[i].x_tenant_id, spend_calls[i].x_user_id>>
            # <<spend_calls[j].x_tenant_id, spend_calls[j].x_user_id>>
        => _user_key(or_unknown(spend_calls[i].x_tenant_id),
                     or_unknown(spend_calls[i].x_user_id), now)
             # _user_key(or_unknown(spend_calls[j].x_tenant_id),
                         or_unknown(spend_calls[j].x_user_id), now)

\* the budget percentage read for a request is the one computed from the spend
\* recorded for its own tenant and its own user
BudgetReadsOwnSpendOnly ==
    \A k \in 1..Len(bt_call) :
        bt_call[k].pct =
            get_budget_pct(bt_call[k].controls,
                [raises |-> "",
                 tenant_val |-> tenant_spend_applied(bt_call[k].applied,
                                                     bt_call[k].x_tenant_id),
                 user_val |-> user_spend_applied(bt_call[k].applied, bt_call[k].x_tenant_id,
                                                 bt_call[k].x_user_id)])

\* C40: spend counters are isolated per identity: two requests of distinct
\* (tenant, user) pairs never use the same user key, and the budget percentage
\* read for a request depends on the spend recorded for its own tenant and user
\* alone, whatever was recorded for other tenants.
C40_SpendIsolated == UserKeysDistinct /\ BudgetReadsOwnSpendOnly

====
